---- MODULE Spec2Model ----
(***************************************************************************)
(* Consistency checking of RGB contract interfaces (rgb-std,               *)
(* src/interface/iface.rs).  An interface is assembled entry by entry into *)
(* ordered, key-unique tables (TinyOrdMap / TinyOrdSet) and Iface::check   *)
(* is then applied to the assembled value.                                 *)
(***************************************************************************)
EXTENDS Integers, Sequences, FiniteSets, TLC

VARIABLES
    iface,      \* the interface under assembly, then checked
    entries,    \* the number of entries iface holds
    result,     \* what check has returned, <<>> before the call
    other,      \* a second interface value, for the calls that take two
    calls       \* the calls in progress on iface, one per thread

vars == <<iface, entries, result, other, calls>>

(***************************************************************************)
(* Bounds of the model.                                                    *)
(***************************************************************************)
\* Largest number of entries (declarations, operations, references and set
\* defaults) an assembled interface holds.
MaxEntries == 3

\* Field names, listed in their lexicographic (Ord) order.
FieldNames == <<"a", "b">>

Names == {FieldNames[i] : i \in 1..Len(FieldNames)}

\* Position of a field name in the lexicographic order of field names.
Rank(n) == CHOOSE i \in 1..Len(FieldNames) : FieldNames[i] = n

\* Error tags (u8) an operation may reference.
Tags == {0, 1}

\* Option<FieldName>: None is the empty sequence, Some(n) the sequence of n.
None == <<>>

Some(n) == <<n>>

(***************************************************************************)
(* rgb::Occurrences and its min_value().                                   *)
(***************************************************************************)
Once == <<"Once">>

NoneOrMore == <<"NoneOrMore">>

OnceOrMore == <<"OnceOrMore">>

Exactly(v) == <<"Exactly", v>>

Occurrences == {Once, NoneOrMore, OnceOrMore, Exactly(2)}

min_value(occ) ==
    CASE occ[1] = "Once" -> 1
      [] occ[1] = "NoneOrOnce" -> 0
      [] occ[1] = "NoneOrMore" -> 0
      [] occ[1] = "OnceOrMore" -> 1
      [] occ[1] = "NoneOrUpTo" -> 0
      [] occ[1] = "OnceOrUpTo" -> 1
      [] occ[1] = "Exactly" -> occ[2]
      [] occ[1] = "Range" -> occ[2]

\* Occurrences::max_value(), which check does not read.
max_value(occ) ==
    CASE occ[1] = "Once" -> 1
      [] occ[1] = "NoneOrOnce" -> 1
      [] occ[1] = "NoneOrMore" -> 65535
      [] occ[1] = "OnceOrMore" -> 65535
      [] occ[1] = "NoneOrUpTo" -> occ[2]
      [] occ[1] = "OnceOrUpTo" -> occ[2]
      [] occ[1] = "Exactly" -> occ[2]
      [] occ[1] = "Range" -> occ[3]

(***************************************************************************)
(* Ordered containers.  A TinyOrdMap is the sequence of its <<key, value>> *)
(* entries in key order, a TinyOrdSet the sequence of its elements in      *)
(* order; iteration visits the sequence front to back.                     *)
(***************************************************************************)
Keys(m) == {m[i][1] : i \in 1..Len(m)}

Elems(s) == {s[i] : i \in 1..Len(s)}

\* BTreeMap::get
Get(m, k) == LET i == CHOOSE j \in 1..Len(m) : m[j][1] = k IN m[i][2]

\* Mutation of MapInsert: the entry is appended, as in an insertion-ordered map.
MapInsertAppend(m, k, v) ==
    IF k \in Keys(m)
    THEN [m EXCEPT ![CHOOSE j \in 1..Len(m) : m[j][1] = k] = <<k, v>>]
    ELSE Append(m, <<k, v>>)

\* BTreeMap::insert on a map keyed by FieldName: an existing key keeps its
\* place and takes the new value, a new key goes to its place in key order.
MapInsert(m, k, v) ==
    IF k \in Keys(m)
    THEN [m EXCEPT ![CHOOSE j \in 1..Len(m) : m[j][1] = k] = <<k, v>>]
    ELSE LET p == Cardinality({j \in 1..Len(m) : Rank(m[j][1]) < Rank(k)})
         IN SubSeq(m, 1, p) \o <<<<k, v>>>> \o SubSeq(m, p + 1, Len(m))

\* Mutation of SetInsert: the element is appended, as in an insertion-ordered
\* set.
SetInsertAppend(s, k) == IF k \in Elems(s) THEN s ELSE Append(s, k)

\* BTreeSet::insert on a set of FieldName.
SetInsert(s, k) ==
    IF k \in Elems(s)
    THEN s
    ELSE LET p == Cardinality({j \in 1..Len(s) : Rank(s[j]) < Rank(k)})
         IN SubSeq(s, 1, p) \o <<k>> \o SubSeq(s, p + 1, Len(s))

\* BTreeSet::insert on a set of u8 error tags.
TagInsert(s, t) ==
    IF t \in Elems(s)
    THEN s
    ELSE LET p == Cardinality({j \in 1..Len(s) : s[j] < t})
         IN SubSeq(s, 1, p) \o <<t>> \o SubSeq(s, p + 1, Len(s))

\* BTreeMap::insert on the error table, whose keys (Variant) are ordered by tag:
\* a variant whose tag is present leaves the key, a new one goes to its place.
ErrorInsert(m, v, descr) ==
    IF \E j \in 1..Len(m) : m[j][1].tag = v.tag
    THEN [m EXCEPT ![CHOOSE j \in 1..Len(m) : m[j][1].tag = v.tag] = <<@[1], descr>>]
    ELSE LET p == Cardinality({j \in 1..Len(m) : m[j][1].tag < v.tag})
         IN SubSeq(m, 1, p) \o <<<<v, descr>>>> \o SubSeq(m, p + 1, Len(m))

\* Concatenation of the sequences of ss, front to back: what a loop has
\* pushed when ss[i] is what its i-th turn pushes.
RECURSIVE Flatten(_)
Flatten(ss) == IF Len(ss) = 0 THEN <<>> ELSE Head(ss) \o Flatten(Tail(ss))

(***************************************************************************)
(* The data model: declarations, operations and the interface.             *)
(***************************************************************************)
\* Req and its two tests.
Req == {"Optional", "Required", "NoneOrMore", "OneOrMore"}

is_required(req) == req = "Required" \/ req = "OneOrMore"

is_multiple(req) == req = "NoneOrMore" \/ req = "OneOrMore"

\* Semantic type ids (SemId), and the kinds of owned state (OwnedIface): a
\* kind is the sequence of its variant and, for Data, its type id.
SemIds == {1, 2}

OwnedIface == {<<"Any">>, <<"Rights">>, <<"Amount">>, <<"AnyData">>, <<"AnyAttach">>}
                 \cup {<<"Data", id>> : id \in SemIds}

\* Modifier, with its u8 representation.
Final == 0

Abstract == 1

Override == 2

Modifier == {Final, Abstract, Override}

\* GlobalIface::any
any(req) ==
    [sem_id |-> None, required |-> is_required(req), multiple |-> is_multiple(req)]

\* GlobalIface::optional, ::required, ::none_or_many, ::one_or_many
typed(sem_id, req) ==
    [sem_id |-> Some(sem_id), required |-> is_required(req),
     multiple |-> is_multiple(req)]

\* AssignIface::public
public(owned_state, req) ==
    [owned_state |-> owned_state, public |-> TRUE,
     required |-> is_required(req), multiple |-> is_multiple(req)]

\* AssignIface::private
private(owned_state, req) ==
    [owned_state |-> owned_state, public |-> FALSE,
     required |-> is_required(req), multiple |-> is_multiple(req)]

\* The GlobalIface values an assembly declares: of any type.
GlobalIface == {any(req) : req \in Req}

\* The AssignIface values an assembly declares: private, of any state.
AssignIface == {private(<<"Any">>, req) : req \in Req}

\* ValencyIface { required }
ValencyIface == [required : BOOLEAN]

\* strict_encoding::Variant { name, tag }, the keys of Iface::errors.
Variants == {[name |-> "e0", tag |-> 0], [name |-> "e1", tag |-> 1]}

\* A GenesisIface with no reference.
EmptyGenesis ==
    [modifier |-> Final, metadata |-> None,
     globals |-> <<>>, assignments |-> <<>>, valencies |-> <<>>, errors |-> <<>>]

\* A TransitionIface with no reference.
EmptyTransition ==
    [modifier |-> Final, optional |-> FALSE, metadata |-> None,
     globals |-> <<>>, inputs |-> <<>>, assignments |-> <<>>, valencies |-> <<>>,
     errors |-> <<>>, default_assignment |-> None]

\* An ExtensionIface with no reference.
EmptyExtension ==
    [modifier |-> Final, optional |-> FALSE, metadata |-> None,
     globals |-> <<>>, assignments |-> <<>>, redeems |-> <<>>, valencies |-> <<>>,
     errors |-> <<>>, default_assignment |-> None]

\* An Iface with empty tables.
EmptyIface ==
    [version |-> 0, name |-> "A", inherits |-> <<>>,
     global_state |-> <<>>, assignments |-> <<>>, valencies |-> <<>>,
     genesis |-> EmptyGenesis, transitions |-> <<>>, extensions |-> <<>>,
     default_operation |-> None, errors |-> <<>>, types |-> <<>>]

\* OpName
Genesis == [op |-> "Genesis"]

Transition(n) == [op |-> "Transition", name |-> n]

Extension(n) == [op |-> "Extension", name |-> n]

\* IfaceInconsistency variants carrying an operation and a field name.
OpErr(kind, op_name, name) == [kind |-> kind, op |-> op_name, name |-> name]

\* IfaceInconsistency::UnknownErrorTag
TagErr(op_name, tag) == [kind |-> "UnknownErrorTag", op |-> op_name, tag |-> tag]

\* IfaceInconsistency variants carrying a field name only.
NameErr(kind, name) == [kind |-> kind, name |-> name]

(***************************************************************************)
(* Iface::check.                                                           *)
(***************************************************************************)
\* Result<(), Vec<IfaceInconsistency>>
Ok == <<"Ok">>

Err(errors) == <<"Err", errors>>

\* Mutation of proc_globals: the maximum of the occurrence is compared.
proc_globals_max_value(self, op_name, globals) ==
    Flatten([i \in 1..Len(globals) |->
        LET e == globals[i] IN
        IF e[1] \in Keys(self.global_state)
        THEN IF max_value(e[2]) > 1 /\ ~Get(self.global_state, e[1]).multiple
             THEN <<OpErr("MultipleGlobal", op_name, e[1])>>
             ELSE <<>>
        ELSE <<OpErr("UnknownGlobal", op_name, e[1])>>])

\* The closure proc_globals, for one operation.
proc_globals(self, op_name, globals) ==
    Flatten([i \in 1..Len(globals) |->
        LET e == globals[i] IN
        IF e[1] \in Keys(self.global_state)
        THEN IF min_value(e[2]) > 1 /\ ~Get(self.global_state, e[1]).multiple
             THEN <<OpErr("MultipleGlobal", op_name, e[1])>>
             ELSE <<>>
        ELSE <<OpErr("UnknownGlobal", op_name, e[1])>>])

\* Mutation of proc_assignments: an undeclared assignment is not reported.
proc_assignments_known_only(self, op_name, assignments) ==
    Flatten([i \in 1..Len(assignments) |->
        LET e == assignments[i] IN
        IF e[1] \in Keys(self.assignments)
              /\ min_value(e[2]) > 1 /\ ~Get(self.assignments, e[1]).multiple
        THEN <<OpErr("MultipleAssignment", op_name, e[1])>>
        ELSE <<>>])

\* Mutation of proc_assignments: the cardinality is tested for an undeclared
\* assignment too.
proc_assignments_cardinality_of_unknown(self, op_name, assignments) ==
    Flatten([i \in 1..Len(assignments) |->
        LET e == assignments[i] IN
        (IF e[1] \in Keys(self.assignments)
         THEN <<>>
         ELSE <<OpErr("UnknownAssignment", op_name, e[1])>>)
        \o (IF min_value(e[2]) > 1
                  /\ (e[1] \in Keys(self.assignments) =>
                          ~Get(self.assignments, e[1]).multiple)
            THEN <<OpErr("MultipleAssignment", op_name, e[1])>>
            ELSE <<>>)])

\* The closure proc_assignments, for one operation.
proc_assignments(self, op_name, assignments) ==
    Flatten([i \in 1..Len(assignments) |->
        LET e == assignments[i] IN
        IF e[1] \in Keys(self.assignments)
        THEN IF min_value(e[2]) > 1 /\ ~Get(self.assignments, e[1]).multiple
             THEN <<OpErr("MultipleAssignment", op_name, e[1])>>
             ELSE <<>>
        ELSE <<OpErr("UnknownAssignment", op_name, e[1])>>])

\* The closure proc_valencies, for one operation.
proc_valencies(self, op_name, valencies) ==
    Flatten([i \in 1..Len(valencies) |->
        LET name == valencies[i] IN
        IF name \notin Keys(self.valencies)
        THEN <<OpErr("UnknownValency", op_name, name)>>
        ELSE <<>>])

\* Mutation of proc_errors: a tag is known when the table has the variant of
\* that tag under its usual name.
proc_errors_by_variant(self, op_name, errs) ==
    Flatten([i \in 1..Len(errs) |->
        LET tag == errs[i] IN
        IF \A v \in Keys(self.errors) :
              v # [name |-> IF tag = 0 THEN "e0" ELSE "e1", tag |-> tag]
        THEN <<TagErr(op_name, tag)>>
        ELSE <<>>])

\* The closure proc_errors, for one operation.
proc_errors(self, op_name, errs) ==
    Flatten([i \in 1..Len(errs) |->
        LET tag == errs[i] IN
        IF \A v \in Keys(self.errors) : v.tag # tag
        THEN <<TagErr(op_name, tag)>>
        ELSE <<>>])

\* Mutation of proc_inputs: the inputs are processed as assignments are.
proc_inputs_as_assignments(self, op_name, inputs) ==
    Flatten([i \in 1..Len(inputs) |->
        LET e == inputs[i] IN
        IF e[1] \in Keys(self.assignments)
        THEN IF min_value(e[2]) > 1 /\ ~Get(self.assignments, e[1]).multiple
             THEN <<OpErr("MultipleAssignment", op_name, e[1])>>
             ELSE <<>>
        ELSE <<OpErr("UnknownAssignment", op_name, e[1])>>])

\* Mutation of proc_inputs: the minimum is compared with >= 1.
proc_inputs_min_one(self, op_name, inputs) ==
    Flatten([i \in 1..Len(inputs) |->
        LET e == inputs[i] IN
        IF e[1] \in Keys(self.assignments)
        THEN IF min_value(e[2]) >= 1 /\ ~Get(self.assignments, e[1]).multiple
             THEN <<OpErr("MultipleInputs", op_name, e[1])>>
             ELSE <<>>
        ELSE <<OpErr("UnknownInput", op_name, e[1])>>])

\* The loop over a transition's inputs.
proc_inputs(self, op_name, inputs) ==
    Flatten([i \in 1..Len(inputs) |->
        LET e == inputs[i] IN
        IF e[1] \in Keys(self.assignments)
        THEN IF min_value(e[2]) > 1 /\ ~Get(self.assignments, e[1]).multiple
             THEN <<OpErr("MultipleInputs", op_name, e[1])>>
             ELSE <<>>
        ELSE <<OpErr("UnknownInput", op_name, e[1])>>])

\* Mutation of proc_redeems: the variant pushed is the one of proc_valencies.
proc_redeems_as_valencies(self, op_name, redeems) ==
    Flatten([i \in 1..Len(redeems) |->
        LET name == redeems[i] IN
        IF name \notin Keys(self.valencies)
        THEN <<OpErr("UnknownValency", op_name, name)>>
        ELSE <<>>])

\* The loop over an extension's redeems.
proc_redeems(self, op_name, redeems) ==
    Flatten([i \in 1..Len(redeems) |->
        LET name == redeems[i] IN
        IF name \notin Keys(self.valencies)
        THEN <<OpErr("UnknownRedeem", op_name, name)>>
        ELSE <<>>])

\* The test of an operation's default_assignment against its own assignments.
proc_default_assignment(op_name, assignments, default_assignment) ==
    IF default_assignment # None /\ default_assignment[1] \notin Keys(assignments)
    THEN <<OpErr("UnknownDefaultAssignment", op_name, default_assignment[1])>>
    ELSE <<>>

\* Mutation of check_genesis: an Override genesis is a violation in an
\* interface that inherits from none.
check_genesis_override_inherits(self) ==
    proc_globals(self, Genesis, self.genesis.globals)
        \o proc_assignments(self, Genesis, self.genesis.assignments)
        \o proc_valencies(self, Genesis, self.genesis.valencies)
        \o proc_errors(self, Genesis, self.genesis.errors)
        \o (IF self.genesis.modifier = Override /\ self.inherits = <<>>
            THEN <<NameErr("UnknownDefaultOp", "a")>>
            ELSE <<>>)

\* What check pushes for genesis.
check_genesis(self) ==
    proc_globals(self, Genesis, self.genesis.globals)
        \o proc_assignments(self, Genesis, self.genesis.assignments)
        \o proc_valencies(self, Genesis, self.genesis.valencies)
        \o proc_errors(self, Genesis, self.genesis.errors)

\* Mutation of check_transition: the default assignment is looked up in the
\* assignments table of the interface.
check_transition_default_declared(self, name, t) ==
    proc_globals(self, Transition(name), t.globals)
        \o proc_assignments(self, Transition(name), t.assignments)
        \o proc_valencies(self, Transition(name), t.valencies)
        \o proc_errors(self, Transition(name), t.errors)
        \o proc_inputs(self, Transition(name), t.inputs)
        \o proc_default_assignment(Transition(name), self.assignments, t.default_assignment)

\* What one turn of the loop over the transitions pushes.
check_transition(self, name, t) ==
    proc_globals(self, Transition(name), t.globals)
        \o proc_assignments(self, Transition(name), t.assignments)
        \o proc_valencies(self, Transition(name), t.valencies)
        \o proc_errors(self, Transition(name), t.errors)
        \o proc_inputs(self, Transition(name), t.inputs)
        \o proc_default_assignment(Transition(name), t.assignments, t.default_assignment)

\* What one turn of the loop over the extensions pushes.
check_extension(self, name, e) ==
    proc_globals(self, Extension(name), e.globals)
        \o proc_assignments(self, Extension(name), e.assignments)
        \o proc_valencies(self, Extension(name), e.valencies)
        \o proc_errors(self, Extension(name), e.errors)
        \o proc_redeems(self, Extension(name), e.redeems)
        \o proc_default_assignment(Extension(name), e.assignments, e.default_assignment)

\* Mutation of check_repeated: the extension names are looked up among the
\* transitions as well.
check_repeated_both_ways(self) ==
    Flatten([i \in 1..Len(self.transitions) |->
        LET e == self.transitions[i] IN
        IF e[1] \in Keys(self.extensions)
        THEN <<NameErr("RepeatedOperationName", e[1])>>
        ELSE <<>>])
    \o Flatten([i \in 1..Len(self.extensions) |->
        LET e == self.extensions[i] IN
        IF e[1] \in Keys(self.transitions)
        THEN <<NameErr("RepeatedOperationName", e[1])>>
        ELSE <<>>])

\* The loop over the transition names that are extension names too.
check_repeated(self) ==
    Flatten([i \in 1..Len(self.transitions) |->
        LET e == self.transitions[i] IN
        IF e[1] \in Keys(self.extensions)
        THEN <<NameErr("RepeatedOperationName", e[1])>>
        ELSE <<>>])

\* Mutation of check_default_op: the extensions are not looked at.
check_default_op_transitions_only(self) ==
    IF self.default_operation # None
       /\ self.default_operation[1] \notin Keys(self.transitions)
    THEN <<NameErr("UnknownDefaultOp", self.default_operation[1])>>
    ELSE <<>>

\* The test of default_operation.
check_default_op(self) ==
    IF self.default_operation # None
       /\ self.default_operation[1] \notin Keys(self.transitions)
       /\ self.default_operation[1] \notin Keys(self.extensions)
    THEN <<NameErr("UnknownDefaultOp", self.default_operation[1])>>
    ELSE <<>>

\* Mutation of check_required: a genesis reference counts when its minimum
\* is at least one.
check_required_by_minimum(self) ==
    Flatten([i \in 1..Len(self.global_state) |->
        LET e == self.global_state[i] IN
        IF e[2].required
              /\ ~\E g \in Elems(self.genesis.globals) : g[1] = e[1] /\ min_value(g[2]) >= 1
        THEN <<NameErr("RequiredGlobalAbsent", e[1])>>
        ELSE <<>>])
    \o Flatten([i \in 1..Len(self.assignments) |->
        LET e == self.assignments[i] IN
        IF e[2].required
              /\ ~\E g \in Elems(self.genesis.assignments) :
                      g[1] = e[1] /\ min_value(g[2]) >= 1
        THEN <<NameErr("RequiredAssignmentAbsent", e[1])>>
        ELSE <<>>])
    \o Flatten([i \in 1..Len(self.valencies) |->
        LET e == self.valencies[i] IN
        IF e[2].required /\ e[1] \notin Elems(self.genesis.valencies)
        THEN <<NameErr("RequiredValencyAbsent", e[1])>>
        ELSE <<>>])

\* The three loops over the required declarations.
check_required(self) ==
    Flatten([i \in 1..Len(self.global_state) |->
        LET e == self.global_state[i] IN
        IF e[2].required /\ e[1] \notin Keys(self.genesis.globals)
        THEN <<NameErr("RequiredGlobalAbsent", e[1])>>
        ELSE <<>>])
    \o Flatten([i \in 1..Len(self.assignments) |->
        LET e == self.assignments[i] IN
        IF e[2].required /\ e[1] \notin Keys(self.genesis.assignments)
        THEN <<NameErr("RequiredAssignmentAbsent", e[1])>>
        ELSE <<>>])
    \o Flatten([i \in 1..Len(self.valencies) |->
        LET e == self.valencies[i] IN
        IF e[2].required /\ e[1] \notin Elems(self.genesis.valencies)
        THEN <<NameErr("RequiredValencyAbsent", e[1])>>
        ELSE <<>>])

\* Mutation of check_errors: check stops at the first operation with a violation.
check_errors_first_operation(self) ==
    LET ops == <<check_genesis(self)>>
                 \o [i \in 1..Len(self.transitions) |->
                        check_transition(self, self.transitions[i][1], self.transitions[i][2])]
                 \o [i \in 1..Len(self.extensions) |->
                        check_extension(self, self.extensions[i][1], self.extensions[i][2])]
                 \o <<check_repeated(self), check_default_op(self), check_required(self)>>
        hit == {i \in 1..Len(ops) : ops[i] # <<>>}
    IN IF hit = {} THEN <<>> ELSE ops[CHOOSE i \in hit : \A j \in hit : i <= j]

\* Mutation of check_errors: the required declarations are looked at first and
\* the extensions before the transitions.
check_errors_required_first(self) ==
    check_required(self)
        \o check_genesis(self)
        \o Flatten([i \in 1..Len(self.extensions) |->
        LET e == self.extensions[i] IN
        check_extension(self, e[1], e[2])])
        \o Flatten([i \in 1..Len(self.transitions) |->
        LET e == self.transitions[i] IN
        check_transition(self, e[1], e[2])])
        \o check_repeated(self)
        \o check_default_op(self)

\* The vector errors as check has filled it when it reaches its last statement.
check_errors(self) ==
    check_genesis(self)
        \o Flatten([i \in 1..Len(self.transitions) |->
        LET e == self.transitions[i] IN
        check_transition(self, e[1], e[2])])
        \o Flatten([i \in 1..Len(self.extensions) |->
        LET e == self.extensions[i] IN
        check_extension(self, e[1], e[2])])
        \o check_repeated(self)
        \o check_default_op(self)
        \o check_required(self)

\* Mutation of check_return: the vector is returned as an error, empty or not.
check_return_always_err(errors) == Err(errors)

\* The value check returns for the vector it has filled.
check_return(errors) == IF errors = <<>> THEN Ok ELSE Err(errors)

\* Iface::check
check(self) == check_return(check_errors(self))

(***************************************************************************)
(* Assembly of an interface and the call of check.                         *)
(***************************************************************************)
\* Sum of a sequence of numbers.
SumSeq(ns) ==
    LET acc[i \in 0..Len(ns)] == IF i = 0 THEN 0 ELSE acc[i - 1] + ns[i]
    IN acc[Len(ns)]

\* Number of entries a transition adds to an interface: itself, its
\* references and its default, when set.
TransitionSize(t) ==
    1 + Len(t.globals) + Len(t.inputs) + Len(t.assignments) + Len(t.valencies)
        + Len(t.errors) + Len(t.default_assignment)

\* Number of entries an extension adds to an interface.
ExtensionSize(e) ==
    1 + Len(e.globals) + Len(e.assignments) + Len(e.redeems) + Len(e.valencies)
        + Len(e.errors) + Len(e.default_assignment)

\* Number of entries of an interface: declarations, operations, references
\* and set defaults.
Size(self) ==
    Len(self.global_state) + Len(self.assignments) + Len(self.valencies)
        + Len(self.errors) + Len(self.default_operation)
        + Len(self.genesis.globals) + Len(self.genesis.assignments)
        + Len(self.genesis.valencies) + Len(self.genesis.errors)
        + SumSeq([i \in 1..Len(self.transitions) |->
                     TransitionSize(self.transitions[i][2])])
        + SumSeq([i \in 1..Len(self.extensions) |->
                     ExtensionSize(self.extensions[i][2])])

\* Two transitions, each referencing a global state of its own.
TwoTransitions ==
    [EmptyIface EXCEPT !.transitions =
        MapInsert(MapInsert(<<>>,
            "b", [EmptyTransition EXCEPT !.globals = MapInsert(<<>>, "b", Once)]),
            "a", [EmptyTransition EXCEPT !.globals = MapInsert(<<>>, "a", Once)])]

\* A transition whose default assignment is one of its assignments, declared
\* in the interface.
DefaultAssigned ==
    [EmptyIface EXCEPT
        !.assignments = MapInsert(<<>>, "a", private(<<"Any">>, "Optional")),
        !.transitions =
            MapInsert(<<>>, "a", [EmptyTransition EXCEPT
                                    !.assignments = MapInsert(<<>>, "a", Once),
                                    !.default_assignment = Some("a")])]

\* An interface with a violation in genesis, in a transition, in an extension
\* and of every cross-operation rule.
EveryPhase ==
    [EmptyIface EXCEPT
        !.global_state = MapInsert(<<>>, "a", any("Required")),
        !.assignments = MapInsert(<<>>, "b", private(<<"Any">>, "Required")),
        !.valencies = MapInsert(<<>>, "a", [required |-> TRUE]),
        !.genesis = [EmptyGenesis EXCEPT !.assignments = MapInsert(<<>>, "a", Once)],
        !.transitions =
            MapInsert(<<>>, "a", [EmptyTransition EXCEPT !.errors = TagInsert(<<>>, 1)]),
        !.extensions =
            MapInsert(<<>>, "a", [EmptyExtension EXCEPT !.redeems = SetInsert(<<>>, "b")]),
        !.default_operation = Some("b")]

\* An interface that declares the error tag 0 under a name and a description
\* of its own, with a genesis and a transition that reference the tag.
NamedError ==
    [EmptyIface EXCEPT
        !.errors = ErrorInsert(<<>>, [name |-> "f0", tag |-> 0], "d"),
        !.genesis = [EmptyGenesis EXCEPT !.errors = TagInsert(<<>>, 0)],
        !.transitions =
            MapInsert(<<>>, "a", [EmptyTransition EXCEPT !.errors = TagInsert(<<>>, 0)])]

\* The interfaces an assembly starts from.
Seeds == {EmptyIface, TwoTransitions, DefaultAssigned, EveryPhase, NamedError}

Init ==
    /\ iface \in Seeds
    /\ entries = Size(iface)
    /\ result = <<>>
    /\ other = <<>>
    /\ calls = <<>>

\* An interface under assembly that can take one more entry.
CanInsert == result = <<>> /\ entries < MaxEntries

\* An entry put into Iface::global_state.
DeclareGlobal ==
    /\ CanInsert
    /\ \E n \in Names, g \in GlobalIface :
          iface' = [iface EXCEPT !.global_state = MapInsert(@, n, g)]
    /\ entries' = Size(iface')
    /\ UNCHANGED <<result, other, calls>>

\* An entry put into Iface::assignments.
DeclareAssignment ==
    /\ CanInsert
    /\ \E n \in Names, a \in AssignIface :
          iface' = [iface EXCEPT !.assignments = MapInsert(@, n, a)]
    /\ entries' = Size(iface')
    /\ UNCHANGED <<result, other, calls>>

\* An entry put into Iface::valencies.
DeclareValency ==
    /\ CanInsert
    /\ \E n \in Names, v \in ValencyIface :
          iface' = [iface EXCEPT !.valencies = MapInsert(@, n, v)]
    /\ entries' = Size(iface')
    /\ UNCHANGED <<result, other, calls>>

\* An entry put into Iface::errors.
DeclareError ==
    /\ CanInsert
    /\ \E v \in Variants : iface' = [iface EXCEPT !.errors = ErrorInsert(@, v, "")]
    /\ entries' = Size(iface')
    /\ UNCHANGED <<result, other, calls>>

\* A reference put into GenesisIface::globals or ::assignments.
GenesisMapRef ==
    /\ CanInsert
    /\ \E f \in {"globals", "assignments"}, n \in Names, occ \in Occurrences :
          iface' = [iface EXCEPT !.genesis[f] = MapInsert(@, n, occ)]
    /\ entries' = Size(iface')
    /\ UNCHANGED <<result, other, calls>>

\* A name put into GenesisIface::valencies.
GenesisValency ==
    /\ CanInsert
    /\ \E n \in Names : iface' = [iface EXCEPT !.genesis.valencies = SetInsert(@, n)]
    /\ entries' = Size(iface')
    /\ UNCHANGED <<result, other, calls>>

\* A tag put into GenesisIface::errors.
GenesisError ==
    /\ CanInsert
    /\ \E t \in Tags : iface' = [iface EXCEPT !.genesis.errors = TagInsert(@, t)]
    /\ entries' = Size(iface')
    /\ UNCHANGED <<result, other, calls>>

\* An entry put into Iface::transitions.
AddTransition ==
    /\ CanInsert
    /\ \E n \in Names :
          iface' = [iface EXCEPT !.transitions = MapInsert(@, n, EmptyTransition)]
    /\ entries' = Size(iface')
    /\ UNCHANGED <<result, other, calls>>

\* An entry put into Iface::extensions.
AddExtension ==
    /\ CanInsert
    /\ \E n \in Names :
          iface' = [iface EXCEPT !.extensions = MapInsert(@, n, EmptyExtension)]
    /\ entries' = Size(iface')
    /\ UNCHANGED <<result, other, calls>>

\* A reference put into TransitionIface::globals, ::inputs or ::assignments.
TransitionMapRef ==
    /\ CanInsert
    /\ \E o \in Keys(iface.transitions), f \in {"globals", "inputs", "assignments"},
          n \in Names, occ \in Occurrences :
          iface' = [iface EXCEPT !.transitions =
                      MapInsert(@, o, [Get(@, o) EXCEPT ![f] = MapInsert(@, n, occ)])]
    /\ entries' = Size(iface')
    /\ UNCHANGED <<result, other, calls>>

\* A reference put into ExtensionIface::globals or ::assignments.
ExtensionMapRef ==
    /\ CanInsert
    /\ \E o \in Keys(iface.extensions), f \in {"globals", "assignments"},
          n \in Names, occ \in Occurrences :
          iface' = [iface EXCEPT !.extensions =
                      MapInsert(@, o, [Get(@, o) EXCEPT ![f] = MapInsert(@, n, occ)])]
    /\ entries' = Size(iface')
    /\ UNCHANGED <<result, other, calls>>

\* A name put into TransitionIface::valencies.
TransitionValency ==
    /\ CanInsert
    /\ \E o \in Keys(iface.transitions), n \in Names :
          iface' = [iface EXCEPT !.transitions =
                      MapInsert(@, o, [Get(@, o) EXCEPT !.valencies = SetInsert(@, n)])]
    /\ entries' = Size(iface')
    /\ UNCHANGED <<result, other, calls>>

\* A name put into ExtensionIface::valencies or ::redeems.
ExtensionSetRef ==
    /\ CanInsert
    /\ \E o \in Keys(iface.extensions), f \in {"valencies", "redeems"}, n \in Names :
          iface' = [iface EXCEPT !.extensions =
                      MapInsert(@, o, [Get(@, o) EXCEPT ![f] = SetInsert(@, n)])]
    /\ entries' = Size(iface')
    /\ UNCHANGED <<result, other, calls>>

\* A tag put into TransitionIface::errors or ExtensionIface::errors.
OpError ==
    /\ CanInsert
    /\ \E tb \in {"transitions", "extensions"} :
          \E o \in Keys(iface[tb]), t \in Tags :
              iface' = [iface EXCEPT ![tb] =
                          MapInsert(@, o, [Get(@, o) EXCEPT !.errors = TagInsert(@, t)])]
    /\ entries' = Size(iface')
    /\ UNCHANGED <<result, other, calls>>

\* default_assignment of a transition or an extension set.
OpDefaultAssignment ==
    /\ CanInsert
    /\ \E tb \in {"transitions", "extensions"} :
          \E o \in Keys(iface[tb]), n \in Names :
              iface' = [iface EXCEPT ![tb] =
                          MapInsert(@, o, [Get(@, o) EXCEPT !.default_assignment = Some(n)])]
    /\ entries' = Size(iface')
    /\ UNCHANGED <<result, other, calls>>

\* Iface::default_operation set.
SetDefaultOperation ==
    /\ CanInsert
    /\ \E n \in Names : iface' = [iface EXCEPT !.default_operation = Some(n)]
    /\ entries' = Size(iface')
    /\ UNCHANGED <<result, other, calls>>

\* A call of Iface::check on the assembled interface.
Check ==
    /\ result = <<>>
    /\ result' = check(iface)
    /\ UNCHANGED <<iface, entries, other, calls>>

Next ==
    \/ DeclareGlobal
    \/ DeclareAssignment
    \/ DeclareValency
    \/ DeclareError
    \/ GenesisMapRef
    \/ GenesisValency
    \/ GenesisError
    \/ AddTransition
    \/ AddExtension
    \/ TransitionMapRef
    \/ ExtensionMapRef
    \/ TransitionValency
    \/ ExtensionSetRef
    \/ OpError
    \/ OpDefaultAssignment
    \/ SetDefaultOperation
    \/ Check

Spec == Init /\ [][Next]_vars

(***************************************************************************)
(* The identifier of an interface.  Iface derives CommitEncode with the    *)
(* strict strategy: iface_id is the SHA-256 digest of the strict encoding  *)
(* of the value, its fields in declaration order, every confined           *)
(* collection as its length and its items in iteration order.  Bytes are   *)
(* numbers 0..255; a SemId takes one byte here.                            *)
(***************************************************************************)
\* The bytes of the names and descriptions in use.
Utf8 ==
    [s \in {"a", "b", "A", "B", "e0", "e1", "f0", "", "d"} |->
        CASE s = "a" -> <<97>>
          [] s = "b" -> <<98>>
          [] s = "A" -> <<65>>
          [] s = "B" -> <<66>>
          [] s = "e0" -> <<101, 48>>
          [] s = "e1" -> <<101, 49>>
          [] s = "f0" -> <<102, 48>>
          [] s = "" -> <<>>
          [] s = "d" -> <<100>>]

strict_encode_bool(b) == <<IF b THEN 1 ELSE 0>>

\* A u16, little-endian.
strict_encode_u16(n) == <<n % 256, (n \div 256) % 256>>

\* FieldName, TypeName and TinyString: the length, then the bytes.
strict_encode_string(str) == <<Len(Utf8[str])>> \o Utf8[str]

\* Option<T>, given None or Some of the encoding of the value.
strict_encode_option(opt) == IF opt = None THEN <<0>> ELSE <<1>> \o opt[1]

\* A confined collection, given the encodings of its items in iteration
\* order: their number, then the items.
strict_encode_collection(items) == <<Len(items) % 256>> \o Flatten(items)

\* Option<SemId>
strict_encode_sem_id(opt) ==
    strict_encode_option(IF opt = None THEN None ELSE Some(<<opt[1]>>))

\* Option<FieldName>
strict_encode_name(opt) ==
    strict_encode_option(IF opt = None THEN None ELSE Some(strict_encode_string(opt[1])))

\* rgb::Occurrences: its minimum and its maximum.
strict_encode_Occurrences(occ) ==
    strict_encode_u16(min_value(occ)) \o strict_encode_u16(max_value(occ))

\* OwnedIface, tagged in the order of its variants.
strict_encode_OwnedIface(owned_state) ==
    CASE owned_state[1] = "Any" -> <<0>>
      [] owned_state[1] = "Rights" -> <<1>>
      [] owned_state[1] = "Amount" -> <<2>>
      [] owned_state[1] = "AnyData" -> <<3>>
      [] owned_state[1] = "AnyAttach" -> <<4>>
      [] owned_state[1] = "Data" -> <<5, owned_state[2]>>

strict_encode_GlobalIface(g) ==
    strict_encode_sem_id(g.sem_id)
        \o strict_encode_bool(g.required) \o strict_encode_bool(g.multiple)

strict_encode_AssignIface(a) ==
    strict_encode_OwnedIface(a.owned_state) \o strict_encode_bool(a.public)
        \o strict_encode_bool(a.required) \o strict_encode_bool(a.multiple)

strict_encode_ValencyIface(v) == strict_encode_bool(v.required)

\* ArgMap
strict_encode_ArgMap(m) ==
    strict_encode_collection(
        [i \in 1..Len(m) |->
            strict_encode_string(m[i][1]) \o strict_encode_Occurrences(m[i][2])])

\* TinyOrdSet<FieldName>
strict_encode_names(set) ==
    strict_encode_collection([i \in 1..Len(set) |-> strict_encode_string(set[i])])

\* TinyOrdSet<u8>
strict_encode_tags(set) == strict_encode_collection([i \in 1..Len(set) |-> <<set[i]>>])

\* Mutation of strict_encode_GenesisIface: the modifier is left out.
strict_encode_GenesisIface_without_modifier(op) ==
    strict_encode_sem_id(op.metadata)
        \o strict_encode_ArgMap(op.globals) \o strict_encode_ArgMap(op.assignments)
        \o strict_encode_names(op.valencies) \o strict_encode_tags(op.errors)

strict_encode_GenesisIface(op) ==
    <<op.modifier>> \o strict_encode_sem_id(op.metadata)
        \o strict_encode_ArgMap(op.globals) \o strict_encode_ArgMap(op.assignments)
        \o strict_encode_names(op.valencies) \o strict_encode_tags(op.errors)

strict_encode_ExtensionIface(op) ==
    <<op.modifier>> \o strict_encode_bool(op.optional)
        \o strict_encode_sem_id(op.metadata)
        \o strict_encode_ArgMap(op.globals) \o strict_encode_ArgMap(op.assignments)
        \o strict_encode_names(op.redeems) \o strict_encode_names(op.valencies)
        \o strict_encode_tags(op.errors) \o strict_encode_name(op.default_assignment)

strict_encode_TransitionIface(op) ==
    <<op.modifier>> \o strict_encode_bool(op.optional)
        \o strict_encode_sem_id(op.metadata)
        \o strict_encode_ArgMap(op.globals) \o strict_encode_ArgMap(op.inputs)
        \o strict_encode_ArgMap(op.assignments)
        \o strict_encode_names(op.valencies)
        \o strict_encode_tags(op.errors) \o strict_encode_name(op.default_assignment)

\* Iface, field by field.
strict_encode_Iface(self) ==
    <<self.version>> \o strict_encode_string(self.name)
        \o strict_encode_collection([i \in 1..Len(self.inherits) |-> self.inherits[i]])
        \o strict_encode_collection(
              [i \in 1..Len(self.global_state) |->
                  strict_encode_string(self.global_state[i][1])
                      \o strict_encode_GlobalIface(self.global_state[i][2])])
        \o strict_encode_collection(
              [i \in 1..Len(self.assignments) |->
                  strict_encode_string(self.assignments[i][1])
                      \o strict_encode_AssignIface(self.assignments[i][2])])
        \o strict_encode_collection(
              [i \in 1..Len(self.valencies) |->
                  strict_encode_string(self.valencies[i][1])
                      \o strict_encode_ValencyIface(self.valencies[i][2])])
        \o strict_encode_GenesisIface(self.genesis)
        \o strict_encode_collection(
              [i \in 1..Len(self.transitions) |->
                  strict_encode_string(self.transitions[i][1])
                      \o strict_encode_TransitionIface(self.transitions[i][2])])
        \o strict_encode_collection(
              [i \in 1..Len(self.extensions) |->
                  strict_encode_string(self.extensions[i][1])
                      \o strict_encode_ExtensionIface(self.extensions[i][2])])
        \o strict_encode_name(self.default_operation)
        \o strict_encode_collection(
              [i \in 1..Len(self.errors) |->
                  strict_encode_string(self.errors[i][1].name)
                      \o <<self.errors[i][1].tag>>
                      \o strict_encode_string(self.errors[i][2])])
        \o strict_encode_collection([i \in 1..Len(self.types) |-> <<self.types[i]>>])

\* The digest of a message.  SHA-256 is taken to be collision-free: a digest
\* stands for the message it was computed from.
Sha256(msg) == msg

\* CommitId::commit_id for Iface
commit_id(self) == Sha256(strict_encode_Iface(self))

\* Iface::iface_id
iface_id(self) == commit_id(self)

\* Ordering
Less == "Less"

Equal == "Equal"

Greater == "Greater"

\* Ord for IfaceId (derived: the order of its bytes, as byte strings).
cmp_bytes(x, y) ==
    LET d == {i \in 1..Len(x) : i > Len(y) \/ x[i] # y[i]} IN
    IF d = {}
    THEN IF Len(x) = Len(y) THEN Equal ELSE Less
    ELSE LET i == CHOOSE k \in d : \A j \in d : k <= j IN
         IF i > Len(y) THEN Greater
         ELSE IF x[i] < y[i] THEN Less ELSE Greater

\* PartialEq for Iface
eq(self, that) == iface_id(self) = iface_id(that)

\* Mutation of cmp: the interfaces are ordered by their names.
cmp_by_name(self, that) == cmp_bytes(Utf8[self.name], Utf8[that.name])

\* Ord for Iface
cmp(self, that) == cmp_bytes(iface_id(self), iface_id(that))

\* PartialOrd for Iface
partial_cmp(self, that) == Some(cmp(self, that))

(***************************************************************************)
(* Calls on interface values.  Two values are each put together from       *)
(* EmptyIface by a few settings and insertions, the second from those of   *)
(* the first in another order or with one more; then iface_id, the         *)
(* comparisons or check is called.                                         *)
(***************************************************************************)
\* Largest number of settings and insertions that make up an interface value.
MaxEdits == 2

\* The identifier of an interface to inherit from.
ParentId == iface_id([EmptyIface EXCEPT !.name = "B"])

\* BTreeSet::insert on a set of IfaceId.
IdInsert(s, id) ==
    IF id \in Elems(s)
    THEN s
    ELSE LET p == Cardinality({j \in 1..Len(s) : cmp_bytes(s[j], id) = Less})
         IN SubSeq(s, 1, p) \o <<id>> \o SubSeq(s, p + 1, Len(s))

\* BTreeSet::insert on a set of SemId.
SemIdInsert(s, id) == TagInsert(s, id)

\* The settings and insertions: the field, then the key and the value.
Edits ==
    {<<"name", "B">>,
     <<"inherits", ParentId>>,
     <<"types", 1>>,
     <<"default_operation", "a">>,
     <<"genesis.modifier", Override>>,
     <<"genesis.metadata", 1>>,
     <<"genesis.errors", 0>>}
    \cup {<<"global_state", "a", any("Optional")>>,
          <<"global_state", "a", typed(1, "Optional")>>,
          <<"global_state", "b", typed(1, "Optional")>>}
    \cup {<<"assignments", "a", private(<<"Any">>, "Optional")>>,
          <<"assignments", "a", public(<<"Any">>, "Optional")>>,
          <<"assignments", "a", private(<<"Amount">>, "Optional")>>}
    \cup {<<"errors", [name |-> "e0", tag |-> 0], "">>,
          <<"errors", [name |-> "f0", tag |-> 0], "">>,
          <<"errors", [name |-> "e0", tag |-> 0], "d">>}
    \cup {<<"genesis.globals", "a", Once>>, <<"genesis.globals", "a", Exactly(1)>>,
          <<"genesis.globals", "a", Exactly(2)>>}
    \cup {<<"genesis.valencies", "a">>, <<"genesis.valencies", "b">>}
    \cup {<<"transitions", "a", EmptyTransition>>,
          <<"transitions", "a", [EmptyTransition EXCEPT !.optional = TRUE]>>,
          <<"transitions", "a", [EmptyTransition EXCEPT !.modifier = Abstract]>>}

\* An interface after one setting or insertion.
Apply(self, e) ==
    CASE e[1] = "name" -> [self EXCEPT !.name = e[2]]
      [] e[1] = "inherits" -> [self EXCEPT !.inherits = IdInsert(@, e[2])]
      [] e[1] = "types" -> [self EXCEPT !.types = SemIdInsert(@, e[2])]
      [] e[1] = "default_operation" -> [self EXCEPT !.default_operation = Some(e[2])]
      [] e[1] = "genesis.modifier" -> [self EXCEPT !.genesis.modifier = e[2]]
      [] e[1] = "genesis.metadata" -> [self EXCEPT !.genesis.metadata = Some(e[2])]
      [] e[1] = "genesis.errors" -> [self EXCEPT !.genesis.errors = TagInsert(@, e[2])]
      [] e[1] = "global_state" ->
            [self EXCEPT !.global_state = MapInsert(@, e[2], e[3])]
      [] e[1] = "assignments" -> [self EXCEPT !.assignments = MapInsert(@, e[2], e[3])]
      [] e[1] = "errors" -> [self EXCEPT !.errors = ErrorInsert(@, e[2], e[3])]
      [] e[1] = "genesis.globals" ->
            [self EXCEPT !.genesis.globals = MapInsert(@, e[2], e[3])]
      [] e[1] = "genesis.valencies" ->
            [self EXCEPT !.genesis.valencies = SetInsert(@, e[2])]
      [] e[1] = "transitions" -> [self EXCEPT !.transitions = MapInsert(@, e[2], e[3])]

\* An interface put together by a sequence of settings and insertions.
Assemble(edits) ==
    LET acc[i \in 0..Len(edits)] ==
            IF i = 0 THEN EmptyIface ELSE Apply(acc[i - 1], edits[i])
    IN acc[Len(edits)]

\* The sequences of at most MaxEdits settings and insertions.
EditSeqs == UNION {[1..n -> Edits] : n \in 0..MaxEdits}

\* The same settings and insertions in every order.
Reorderings(edits) ==
    {[i \in 1..Len(edits) |-> edits[f[i]]] :
        f \in {g \in [1..Len(edits) -> 1..Len(edits)] :
                  \A i, j \in 1..Len(edits) : g[i] = g[j] => i = j}}

InitPair ==
    /\ \E edits \in EditSeqs :
          /\ iface = Assemble(edits)
          /\ entries = Len(edits)
          /\ \/ \E again \in Reorderings(edits) : other = Assemble(again)
             \/ \E e \in Edits : other = Apply(Assemble(edits), e)
    /\ result = <<>>
    /\ calls = <<>>

\* A call of Iface::iface_id.
CallIfaceId ==
    /\ result = <<>>
    /\ result' = <<"iface_id", iface_id(iface)>>
    /\ UNCHANGED <<iface, entries, other, calls>>

\* A comparison iface == other.
CallEq ==
    /\ result = <<>>
    /\ result' = <<"eq", eq(iface, other)>>
    /\ UNCHANGED <<iface, entries, other, calls>>

\* A call of Ord::cmp.
CallCmp ==
    /\ result = <<>>
    /\ result' = <<"cmp", cmp(iface, other)>>
    /\ UNCHANGED <<iface, entries, other, calls>>

\* A call of PartialOrd::partial_cmp.
CallPartialCmp ==
    /\ result = <<>>
    /\ result' = <<"partial_cmp", partial_cmp(iface, other)>>
    /\ UNCHANGED <<iface, entries, other, calls>>

\* A call of Iface::check.
CallCheck ==
    /\ result = <<>>
    /\ result' = <<"check", check(iface)>>
    /\ UNCHANGED <<iface, entries, other, calls>>

NextPair ==
    \/ CallIfaceId
    \/ CallEq
    \/ CallCmp
    \/ CallPartialCmp
    \/ CallCheck

SpecPair == InitPair /\ [][NextPair]_vars

(***************************************************************************)
(* Concurrent calls.  check and iface_id take &self: several threads call  *)
(* them on one interface, each call advancing by one statement or one turn *)
(* of a loop at a time, in any interleaving.  A call keeps its vector      *)
(* errors and the bytes it has encoded in its own frame.                   *)
(***************************************************************************)
\* Number of threads that call on the interface.
MaxThreads == 2

Threads == 1..MaxThreads

\* A thread that has made no call.
Idle == [method |-> "none", pc |-> "idle", i |-> 0, errors |-> <<>>, ret |-> <<>>]

\* Mutation of push: the calls push into one vector that they share.
push_shared(frames, t, new) ==
    [u \in DOMAIN frames |-> [frames[u] EXCEPT !.errors = @ \o new]]

\* errors.push and errors.extend on the vector of call t.
push(frames, t, new) == [frames EXCEPT ![t].errors = @ \o new]

InitThreads ==
    /\ iface \in Seeds
    /\ entries = Size(iface)
    /\ result = <<>>
    /\ other = iface
    /\ calls = [t \in Threads |-> Idle]

\* A thread calls Iface::check: let mut errors = vec![].
BeginCheck ==
    /\ \E t \in Threads :
          /\ calls[t].pc = "idle"
          /\ calls' = [calls EXCEPT ![t] =
                          [Idle EXCEPT !.method = "check", !.pc = "genesis"]]
    /\ UNCHANGED <<iface, entries, result, other>>

\* The four proc_ calls for genesis.
StepGenesis ==
    /\ \E t \in Threads :
          /\ calls[t].pc = "genesis"
          /\ calls' = [push(calls, t, check_genesis(iface)) EXCEPT
                          ![t].pc = "transitions", ![t].i = 1]
    /\ UNCHANGED <<iface, entries, result, other>>

\* One turn of the loop over the transitions, or its end.
StepTransition ==
    /\ \E t \in Threads :
          /\ calls[t].pc = "transitions"
          /\ IF calls[t].i <= Len(iface.transitions)
             THEN calls' = [push(calls, t,
                                 check_transition(iface,
                                                  iface.transitions[calls[t].i][1],
                                                  iface.transitions[calls[t].i][2]))
                               EXCEPT ![t].i = @ + 1]
             ELSE calls' = [calls EXCEPT ![t].pc = "extensions", ![t].i = 1]
    /\ UNCHANGED <<iface, entries, result, other>>

\* One turn of the loop over the extensions, or its end.
StepExtension ==
    /\ \E t \in Threads :
          /\ calls[t].pc = "extensions"
          /\ IF calls[t].i <= Len(iface.extensions)
             THEN calls' = [push(calls, t,
                                 check_extension(iface,
                                                 iface.extensions[calls[t].i][1],
                                                 iface.extensions[calls[t].i][2]))
                               EXCEPT ![t].i = @ + 1]
             ELSE calls' = [calls EXCEPT ![t].pc = "repeated", ![t].i = 0]
    /\ UNCHANGED <<iface, entries, result, other>>

\* The loop over the names of the transitions.
StepRepeated ==
    /\ \E t \in Threads :
          /\ calls[t].pc = "repeated"
          /\ calls' = [push(calls, t, check_repeated(iface)) EXCEPT
                          ![t].pc = "default_operation"]
    /\ UNCHANGED <<iface, entries, result, other>>

\* The test of default_operation.
StepDefaultOp ==
    /\ \E t \in Threads :
          /\ calls[t].pc = "default_operation"
          /\ calls' = [push(calls, t, check_default_op(iface)) EXCEPT
                          ![t].pc = "required"]
    /\ UNCHANGED <<iface, entries, result, other>>

\* The three loops over the declarations.
StepRequired ==
    /\ \E t \in Threads :
          /\ calls[t].pc = "required"
          /\ calls' = [push(calls, t, check_required(iface)) EXCEPT ![t].pc = "return"]
    /\ UNCHANGED <<iface, entries, result, other>>

\* The last statement of check.
StepReturn ==
    /\ \E t \in Threads :
          /\ calls[t].pc = "return"
          /\ calls' = [calls EXCEPT ![t].ret = check_return(calls[t].errors),
                                    ![t].pc = "done"]
    /\ UNCHANGED <<iface, entries, result, other>>

\* A thread calls Iface::iface_id.
BeginIfaceId ==
    /\ \E t \in Threads :
          /\ calls[t].pc = "idle"
          /\ calls' = [calls EXCEPT ![t] =
                          [Idle EXCEPT !.method = "iface_id", !.pc = "commit_id"]]
    /\ UNCHANGED <<iface, entries, result, other>>

\* commit_id on the interface, and the return of iface_id.
StepCommitId ==
    /\ \E t \in Threads :
          /\ calls[t].pc = "commit_id"
          /\ calls' = [calls EXCEPT ![t].ret = commit_id(iface), ![t].pc = "done"]
    /\ UNCHANGED <<iface, entries, result, other>>

NextThreads ==
    \/ BeginCheck
    \/ StepGenesis
    \/ StepTransition
    \/ StepExtension
    \/ StepRepeated
    \/ StepDefaultOp
    \/ StepRequired
    \/ StepReturn
    \/ BeginIfaceId
    \/ StepCommitId

SpecThreads == InitThreads /\ [][NextThreads]_vars

(***************************************************************************)
(* The textual renderer (contractum.rs).  The text a Formatter has taken   *)
(* is the sequence of the pieces written to it: a literal of the format    *)
(* string is the piece Str(s), a value shown by the Display of a type of   *)
(* another crate is the piece Shown(type, value).                          *)
(***************************************************************************)
\* A literal piece of a format string.
Str(s) == <<"str", s>>

\* A value shown with {} by the Display of its type.
Shown(type, value) == <<type, value>>

\* f.write_str(", ") before every item of a list but the first.
Separator(i) == IF i > 1 THEN <<Str(", ")>> ELSE <<>>

\* Display for IfaceId with the flag '-': the URN prefix, as the form is not
\* the alternate one, then the Baid58 of the identifier with precision 2.
fmt_IfaceId_sign_minus(id) == <<Str("urn:lnp-bp:if:"), Shown("Baid58 {:.2}", id)>>

\* Display for ArgMapDisplay
fmt_ArgMapDisplay(args) ==
    Flatten([i \in 1..Len(args) |->
        LET name == args[i][1]
            occ == args[i][2]
        IN Separator(i)
              \o <<Shown("FieldName", name)>>
              \o (CASE occ[1] = "Once" -> <<>>
                    [] occ[1] = "NoneOrOnce" -> <<Str("(?)")>>
                    [] occ[1] = "NoneOrMore" -> <<Str("(*)")>>
                    [] occ[1] = "OnceOrMore" -> <<Str("(+)")>>
                    [] occ[1] = "NoneOrUpTo" ->
                          <<Str("(.."), Shown("u16", occ[2]), Str(")")>>
                    [] occ[1] = "OnceOrUpTo" ->
                          <<Str("(1.."), Shown("u16", occ[2]), Str(")")>>
                    [] occ[1] = "Exactly" ->
                          <<Str("("), Shown("u16", occ[2]), Str(")")>>
                    [] occ[1] = "Range" ->
                          <<Str("("), Shown("u16", occ[2]), Str(".."),
                            Shown("u16", occ[3]), Str(")")>>)])

\* SymbolicSys::lookup, on the type names a caller has supplied: a function
\* from the SemIds it knows to their names.
lookup(types, id) == IF id \in DOMAIN types THEN Some(types[id]) ELSE None

\* IfaceDisplay::new
IfaceDisplay_new(self, externals, types) ==
    [iface |-> self, externals |-> externals, types |-> types]

\* OpIfaceDisplay::genesis
OpIfaceDisplay_genesis(op, display) ==
    [metadata |-> op.metadata, globals |-> op.globals,
     assignments |-> op.assignments, valencies |-> op.valencies,
     errors |-> op.errors, types |-> display.types,
     iface_errors |-> display.iface.errors]

\* OpIfaceDisplay::transition
OpIfaceDisplay_transition(op, display) ==
    [metadata |-> op.metadata, globals |-> op.globals,
     assignments |-> op.assignments, valencies |-> op.valencies,
     errors |-> op.errors, types |-> display.types,
     iface_errors |-> display.iface.errors]

\* OpIfaceDisplay::extension
OpIfaceDisplay_extension(op, display) ==
    [metadata |-> op.metadata, globals |-> op.globals,
     assignments |-> op.assignments, valencies |-> op.valencies,
     errors |-> op.errors, types |-> display.types,
     iface_errors |-> display.iface.errors]

\* Display for OpIfaceDisplay
fmt_OpIfaceDisplay(self) ==
    (IF self.iface_errors # <<>>
     THEN <<Str("\t\terrors: ")>>
             \o Flatten([i \in 1..Len(self.errors) |->
                    LET tag == self.errors[i]
                        found == {j \in 1..Len(self.iface_errors) :
                                     self.iface_errors[j][1].tag = tag}
                    IN Separator(i)
                          \o (IF found # {}
                              THEN LET j == CHOOSE k \in found : \A l \in found : k <= l
                                   IN <<Shown("Variant", self.iface_errors[j][1])>>
                              ELSE <<Shown("u8", tag)>>)])
             \o <<Str("\n")>>
     ELSE <<>>)
    \o (IF self.metadata # None
        THEN <<Str("\t\tmeta: ")>>
                \o (IF lookup(self.types, self.metadata[1]) # None
                    THEN <<Shown("fqn", lookup(self.types, self.metadata[1])[1]), Str("\n")>>
                    ELSE <<Shown("SemId", self.metadata[1]),
                           Str(" -- type name is unknown"), Str("\n")>>)
        ELSE <<>>)
    \o (IF self.globals # <<>>
        THEN <<Str("\t\tglobals: ")>> \o fmt_ArgMapDisplay(self.globals) \o <<Str("\n")>>
        ELSE <<>>)
    \o (IF self.valencies # <<>>
        THEN <<Str("\t\tvalencies: ")>>
                \o Flatten([i \in 1..Len(self.valencies) |->
                       Separator(i) \o <<Shown("FieldName", self.valencies[i])>>])
                \o <<Str("\n")>>
        ELSE <<>>)
    \o (IF self.assignments # <<>>
        THEN <<Str("\t\tassigns: ")>> \o fmt_ArgMapDisplay(self.assignments)
                \o <<Str("\n")>>
        ELSE <<>>)

\* sugar, the closure of IfaceDisplay::fmt
sugar(required, multiple) ==
    CASE required /\ multiple -> <<Str("(+)")>>
      [] ~required /\ ~multiple -> <<Str("(?)")>>
      [] ~required /\ multiple -> <<Str("(*)")>>
      [] OTHER -> <<>>

\* resolve, the closure of IfaceDisplay::fmt
resolve(types, id) ==
    IF lookup(types, id) # None
    THEN <<Shown("fqn", lookup(types, id)[1])>>
    ELSE <<Shown("SemId {:-}", id), Str(" -- type name unknown")>>

\* opsugar, the closure of IfaceDisplay::fmt
opsugar(pred, name, modifier, optional, default) ==
    LET modifiers ==
            (IF ~optional THEN <<"required">> ELSE <<>>)
                \o (IF default THEN <<"default">> ELSE <<>>)
                \o (CASE modifier = Final -> <<"final">>
                      [] modifier = Abstract -> <<"abstract">>
                      [] modifier = Override -> <<"override">>)
    IN <<Str("\t"), Str(pred)>>
          \o (IF name # None THEN <<Str(" "), Shown("FieldName", name[1])>> ELSE <<>>)
          \o (IF modifiers # <<>> THEN <<Str(": ")>> ELSE <<>>)
          \o Flatten([i \in 1..Len(modifiers) |-> Separator(i) \o <<Str(modifiers[i])>>])
          \o <<Str("\n")>>

\* The header IfaceDisplay::fmt writes: the version, the name and the
\* inherited interfaces.
fmt_header(self) ==
    <<Str("@version("), Shown("VerNo", self.iface.version), Str(")"), Str("\n")>>
        \o <<Str("interface "), Shown("TypeName", self.iface.name)>>
        \o (IF DOMAIN self.externals # {}
            THEN <<Str(": ")>>
                    \o Flatten([index \in 1..Len(self.iface.inherits) |->
                           LET id == self.iface.inherits[index]
                           IN Separator(index)
                                 \o (IF id \in DOMAIN self.externals
                                     THEN <<Shown("TypeName", self.externals[id])>>
                                     ELSE fmt_IfaceId_sign_minus(id) \o <<Str("\n")>>)])
            ELSE <<>>)
        \o <<Str("\n")>>

\* The loop of IfaceDisplay::fmt over global_state, and the line after it.
fmt_global_state(self) ==
    Flatten([i \in 1..Len(self.iface.global_state) |->
        LET fname == self.iface.global_state[i][1]
            g == self.iface.global_state[i][2]
        IN <<Str("\tglobal "), Shown("FieldName", fname)>>
              \o sugar(g.required, g.multiple)
              \o <<Str(": ")>>
              \o (IF g.sem_id # None
                  THEN resolve(self.types, g.sem_id[1])
                  ELSE <<Str("Any")>>)
              \o <<Str("\n")>>])
    \o <<Str("\n")>>

\* The loop of IfaceDisplay::fmt over assignments, and the line after it.
fmt_assignments(self) ==
    Flatten([i \in 1..Len(self.iface.assignments) |->
        LET fname == self.iface.assignments[i][1]
            a == self.iface.assignments[i][2]
        IN <<Str("\t")>>
              \o (IF a.public THEN <<Str("public ")>> ELSE <<Str("owned ")>>)
              \o <<Shown("FieldName", fname)>>
              \o sugar(a.required, a.multiple)
              \o <<Str(": ")>>
              \o (CASE a.owned_state[1] = "Any" -> <<Str("AnyType")>>
                    [] a.owned_state[1] = "Amount" -> <<Str("Zk64")>>
                    [] a.owned_state[1] = "AnyData" -> <<Str("Any")>>
                    [] a.owned_state[1] = "AnyAttach" -> <<Str("AnyAttachment")>>
                    [] a.owned_state[1] = "Rights" -> <<Str("Rights")>>
                    [] a.owned_state[1] = "Data" -> resolve(self.types, a.owned_state[2]))
              \o <<Str("\n")>>])
    \o (IF self.iface.assignments # <<>> THEN <<Str("\n")>> ELSE <<>>)

\* The loop of IfaceDisplay::fmt over valencies, and the line after it.
fmt_valencies(self) ==
    Flatten([i \in 1..Len(self.iface.valencies) |->
        LET fname == self.iface.valencies[i][1]
            v == self.iface.valencies[i][2]
        IN <<Str("\tvalency "), Shown("FieldName", fname)>>
              \o (IF ~v.required THEN <<Str("(?)")>> ELSE <<>>)
              \o <<Str("\n")>>])
    \o (IF self.iface.valencies # <<>> THEN <<Str("\n")>> ELSE <<>>)

\* The loop of IfaceDisplay::fmt over errors, and the line after it.
fmt_errors(self) ==
    Flatten([i \in 1..Len(self.iface.errors) |->
        LET variant == self.iface.errors[i][1]
            descr == self.iface.errors[i][2]
        IN <<Str("\terror "), Shown("VariantName", variant.name), Str(": "),
             Shown("u8", variant.tag), Str("\n")>>
              \o <<Str("\t\t\""), Shown("TinyString", descr), Str("\""), Str("\n")>>])
    \o (IF self.iface.errors # <<>> THEN <<Str("\n")>> ELSE <<>>)

\* What IfaceDisplay::fmt writes for genesis.
fmt_genesis(self) ==
    opsugar("genesis", None, self.iface.genesis.modifier, TRUE, FALSE)
        \o fmt_OpIfaceDisplay(OpIfaceDisplay_genesis(self.iface.genesis, self))
        \o <<Str("\n")>>

\* The loop of IfaceDisplay::fmt over the transitions.
fmt_transitions(self) ==
    Flatten([i \in 1..Len(self.iface.transitions) |->
        LET name == self.iface.transitions[i][1]
            t == self.iface.transitions[i][2]
            default == self.iface.default_operation = Some(name)
        IN opsugar("transition", Some(name), t.modifier, t.optional, default)
              \o fmt_OpIfaceDisplay(OpIfaceDisplay_transition(t, self))
              \o (IF t.default_assignment # None
                  THEN <<Str("\t\tdefault: "),
                         Shown("FieldName", t.default_assignment[1]), Str("\n")>>
                  ELSE <<>>)
              \o <<Str("\t\tinputs: ")>> \o fmt_ArgMapDisplay(t.inputs) \o <<Str("\n")>>
              \o <<Str("\n")>>])

\* The loop of IfaceDisplay::fmt over the extensions.
fmt_extensions(self) ==
    Flatten([i \in 1..Len(self.iface.extensions) |->
        LET name == self.iface.extensions[i][1]
            e == self.iface.extensions[i][2]
            default == self.iface.default_operation = Some(name)
        IN opsugar("extension", Some(name), e.modifier, e.optional, default)
              \o fmt_OpIfaceDisplay(OpIfaceDisplay_extension(e, self))
              \o (IF e.default_assignment # None
                  THEN <<Str("\t\tdefault: "),
                         Shown("FieldName", e.default_assignment[1]), Str("\n")>>
                  ELSE <<>>)
              \o <<Str("\t\tredeems: ")>>
              \o Flatten([j \in 1..Len(e.redeems) |->
                     Separator(j) \o <<Shown("FieldName", e.redeems[j])>>])
              \o <<Str("\n")>>
              \o <<Str("\n")>>])

\* Display for IfaceDisplay
fmt_IfaceDisplay(self) ==
    fmt_header(self)
        \o fmt_global_state(self)
        \o fmt_assignments(self)
        \o fmt_valencies(self)
        \o fmt_errors(self)
        \o fmt_genesis(self)
        \o fmt_transitions(self)
        \o fmt_extensions(self)

(***************************************************************************)
(* Rendering.  A caller assembles the set of inherited interfaces and the  *)
(* two lookups it supplies, the names of interfaces (externals) and the    *)
(* names of types, makes an IfaceDisplay of them and formats it.  In these *)
(* behaviours other holds the two lookups and result the text written.     *)
(***************************************************************************)
\* An interface with typed declarations, metadata and an optional extension.
TypedIface ==
    [EmptyIface EXCEPT
        !.global_state = MapInsert(<<>>, "a", typed(1, "Optional")),
        !.assignments = MapInsert(<<>>, "b", public(<<"Data", 2>>, "NoneOrMore")),
        !.genesis = [EmptyGenesis EXCEPT !.metadata = Some(1),
                                         !.globals = MapInsert(<<>>, "a", Exactly(2))],
        !.extensions =
            MapInsert(<<>>, "b", [EmptyExtension EXCEPT !.optional = TRUE,
                                                        !.modifier = Override])]

\* The interfaces a caller renders.
DisplaySeeds == {EmptyIface, EveryPhase, NamedError, TypedIface}

\* The identifiers of the interfaces inherited from.
ParentIds == {ParentId, iface_id(NamedError)}

\* The names (TypeName) a caller knows interfaces by.
ParentNames == {"B", "N"}

\* The names a caller knows semantic types by.
Fqns == {"Std.T"}

\* HashMap::insert, on a map as the function from its keys to their values.
HashMap_insert(m, k, v) == [x \in DOMAIN m \cup {k} |-> IF x = k THEN v ELSE m[x]]

InitDisplay ==
    /\ iface \in DisplaySeeds
    /\ entries = 0
    /\ result = <<>>
    /\ other = [externals |-> <<>>, types |-> <<>>]
    /\ calls = <<>>

\* An identifier put into Iface::inherits.
Inherit ==
    /\ result = <<>>
    /\ \E id \in ParentIds \ Elems(iface.inherits) :
          iface' = [iface EXCEPT !.inherits = IdInsert(@, id)]
    /\ entries' = entries + 1
    /\ UNCHANGED <<result, other, calls>>

\* A name put into the lookup of interface names.
SupplyExternal ==
    /\ result = <<>>
    /\ \E id \in ParentIds, name \in ParentNames :
          /\ id \notin DOMAIN other.externals
          /\ other' = [other EXCEPT !.externals = HashMap_insert(@, id, name)]
    /\ entries' = entries + 1
    /\ UNCHANGED <<iface, result, calls>>

\* A name put into the lookup of type names.
SupplyType ==
    /\ result = <<>>
    /\ \E id \in SemIds, fqn \in Fqns :
          /\ id \notin DOMAIN other.types
          /\ other' = [other EXCEPT !.types = HashMap_insert(@, id, fqn)]
    /\ entries' = entries + 1
    /\ UNCHANGED <<iface, result, calls>>

\* IfaceDisplay::new(&iface, externals, &types).to_string()
Fmt ==
    /\ result = <<>>
    /\ result' = <<"fmt", fmt_IfaceDisplay(IfaceDisplay_new(iface, other.externals,
                                                             other.types))>>
    /\ UNCHANGED <<iface, entries, other, calls>>

NextDisplay ==
    \/ Inherit
    \/ SupplyExternal
    \/ SupplyType
    \/ Fmt

SpecDisplay == InitDisplay /\ [][NextDisplay]_vars

(***************************************************************************)
(* Ticker (stl/specs.rs).  A caller passes a string to one of the three    *)
(* fallible constructors and encodes the Ticker it gets.  In these         *)
(* behaviours other holds the string, as the sequence of its characters,   *)
(* result the constructor called with what it returned, and calls what     *)
(* strict_encode returned for the Ticker.                                  *)
(***************************************************************************)
\* Length of the longest string passed to a constructor.
MaxInputLen == 9

\* Confined<AsciiString, 1, 8>
TickerMinLen == 1

TickerMaxLen == 8

\* The characters of the strings: / 0 9 : @ A Z [ a and e with acute.
Chars == {47, 48, 57, 58, 64, 65, 90, 91, 97, 233}

\* The strings passed: every string of at most two characters, and the
\* strings of A with any one character in one place.
Inputs ==
    UNION {[1..n -> Chars] : n \in 0..2}
        \cup {[i \in 1..n |-> IF i = p THEN c ELSE 65] :
                 n \in 3..MaxInputLen, p \in 1..MaxInputLen, c \in Chars}

\* Result::Ok of a value.
OkOf(value) == <<"Ok", value>>

\* The UTF-8 bytes of a character below U+0800.
utf8(ch) == IF ch < 128 THEN <<ch>> ELSE <<192 + (ch \div 64), 128 + (ch % 64)>>

\* str::as_bytes, String::as_bytes
as_bytes(s) == Flatten([i \in 1..Len(s) |-> utf8(s[i])])

\* AsciiString::from_ascii
from_ascii(bytes) ==
    IF \A i \in 1..Len(bytes) : bytes[i] < 128
    THEN OkOf(bytes)
    ELSE Err(<<"AsAsciiStrError">>)

\* AlphaCapsNum::try_from(u8), as the constructors and strict_encode use it:
\* the digits and the upper-case letters are its variants.
AlphaCapsNum_try_from(byte) ==
    IF byte \in 48..57 \/ byte \in 65..90 THEN OkOf(byte) ELSE Err(<<"InvalidChar">>)

\* Confined::<AsciiString, 1, 8>::try_from
Confined_try_from(ascii) ==
    IF Len(ascii) >= TickerMinLen /\ Len(ascii) <= TickerMaxLen
    THEN OkOf(ascii)
    ELSE Err(<<"confinement::Error">>)

\* The conversion of an error by the operator ?, and the variants of
\* InvalidIdent the constructors make.
InvalidIdent(variant) == <<"InvalidIdent", variant>>

\* Mutation of Ticker_try_from_AsciiString: the characters are not filtered.
Ticker_try_from_AsciiString_unfiltered(ascii) ==
    IF ascii = <<>>
    THEN Err(InvalidIdent(<<"Empty">>))
    ELSE IF Confined_try_from(ascii)[1] = "Err"
         THEN Err(InvalidIdent(Confined_try_from(ascii)[2]))
         ELSE OkOf(Confined_try_from(ascii)[2])

\* TryFrom<AsciiString> for Ticker
Ticker_try_from_AsciiString(ascii) ==
    IF ascii = <<>>
    THEN Err(InvalidIdent(<<"Empty">>))
    ELSE LET bad == {i \in 1..Len(ascii) : AlphaCapsNum_try_from(ascii[i])[1] = "Err"}
         IN IF bad # {}
            THEN Err(InvalidIdent(<<"InvalidChar", ascii,
                                    ascii[CHOOSE i \in bad : \A j \in bad : i <= j]>>))
            ELSE IF Confined_try_from(ascii)[1] = "Err"
                 THEN Err(InvalidIdent(Confined_try_from(ascii)[2]))
                 ELSE OkOf(Confined_try_from(ascii)[2])

\* FromStr for Ticker
Ticker_from_str(s) ==
    IF from_ascii(as_bytes(s))[1] = "Err"
    THEN Err(InvalidIdent(from_ascii(as_bytes(s))[2]))
    ELSE Ticker_try_from_AsciiString(from_ascii(as_bytes(s))[2])

\* TryFrom<String> for Ticker
Ticker_try_from_String(s) ==
    IF from_ascii(as_bytes(s))[1] = "Err"
    THEN Err(InvalidIdent(from_ascii(as_bytes(s))[2]))
    ELSE Ticker_try_from_AsciiString(from_ascii(as_bytes(s))[2])

\* StrictEncode for Ticker: a panic of one of its two unwrap calls, or the
\* bytes written for the NonEmptyVec of the characters.
Ticker_strict_encode(self) ==
    IF \E i \in 1..Len(self) : AlphaCapsNum_try_from(self[i])[1] = "Err"
    THEN <<"panic", "AlphaCapsNum::try_from">>
    ELSE IF Len(self) < 1 \/ Len(self) > 8
         THEN <<"panic", "NonEmptyVec::try_from_iter">>
         ELSE OkOf(strict_encode_collection([i \in 1..Len(self) |-> <<self[i]>>]))

InitTicker ==
    /\ other \in Inputs
    /\ entries = Len(other)
    /\ result = <<>>
    /\ iface = EmptyIface
    /\ calls = <<>>

\* Ticker::from_str(s)
CallFromStr ==
    /\ result = <<>>
    /\ result' = <<"from_str", Ticker_from_str(other)>>
    /\ UNCHANGED <<iface, entries, other, calls>>

\* Ticker::try_from(s), s a String
CallTryFromString ==
    /\ result = <<>>
    /\ result' = <<"try_from(String)", Ticker_try_from_String(other)>>
    /\ UNCHANGED <<iface, entries, other, calls>>

\* Ticker::try_from(ascii), ascii an AsciiString: a string of ASCII characters.
CallTryFromAsciiString ==
    /\ result = <<>>
    /\ \A i \in 1..Len(other) : other[i] < 128
    /\ result' = <<"try_from(AsciiString)", Ticker_try_from_AsciiString(other)>>
    /\ UNCHANGED <<iface, entries, other, calls>>

\* ticker.strict_encode(writer), for the Ticker a constructor has returned.
CallStrictEncode ==
    /\ result # <<>>
    /\ result[2][1] = "Ok"
    /\ calls = <<>>
    /\ calls' = Ticker_strict_encode(result[2][2])
    /\ UNCHANGED <<iface, entries, result, other>>

NextTicker ==
    \/ CallFromStr
    \/ CallTryFromString
    \/ CallTryFromAsciiString
    \/ CallStrictEncode

SpecTicker == InitTicker /\ [][NextTicker]_vars

(***************************************************************************)
(* The rules of consistency, stated on the content of an interface.        *)
(***************************************************************************)
\* The operations of an interface, each with its OpName.
Operations(self) ==
    {<<Genesis, self.genesis>>}
        \cup {<<Transition(e[1]), e[2]>> : e \in Elems(self.transitions)}
        \cup {<<Extension(e[1]), e[2]>> : e \in Elems(self.extensions)}

\* The operations that have the given field.
OperationsWith(self, field) == {o \in Operations(self) : field \in DOMAIN o[2]}

\* The vector a result carries: none for Ok.
ErrorsOf(r) == IF r[1] = "Err" THEN r[2] ELSE <<>>

\* The calls of check that have returned.
Returned == result # <<>>

\* References through an ArgMap field to names the table does not declare.
UnknownIn(self, kind, field, table) ==
    LET declared == Keys(self[table])
    IN UNION {{OpErr(kind, o[1], n) : n \in Keys(o[2][field]) \ declared} :
                o \in OperationsWith(self, field)}

\* References through an ArgMap field whose minimum exceeds one, to a
\* declaration that is not multiple.
MultipleIn(self, kind, field, table) ==
    LET declared == Keys(self[table])
    IN UNION {{OpErr(kind, o[1], e[1]) :
                   e \in {x \in Elems(o[2][field]) :
                             /\ min_value(x[2]) > 1
                             /\ x[1] \in declared
                             /\ ~Get(self[table], x[1]).multiple}} :
                o \in OperationsWith(self, field)}

\* References through a set field to valencies the interface does not declare.
UnknownValencyIn(self, kind, field) ==
    LET declared == Keys(self.valencies)
    IN UNION {{OpErr(kind, o[1], n) : n \in Elems(o[2][field]) \ declared} :
                o \in OperationsWith(self, field)}

\* Referenced error tags that no declared variant has (rule 4).
UnknownTags(self) ==
    LET declared == {v.tag : v \in Keys(self.errors)}
    IN UNION {{TagErr(o[1], t) : t \in Elems(o[2].errors) \ declared} :
                o \in Operations(self)}

\* Set default assignments that the operation itself does not assign (rule 6).
UnknownDefaults(self) ==
    {OpErr("UnknownDefaultAssignment", o[1], o[2].default_assignment[1]) :
        o \in {x \in OperationsWith(self, "default_assignment") :
                  /\ x[2].default_assignment # None
                  /\ x[2].default_assignment[1] \notin Keys(x[2].assignments)}}

\* Names of both a transition and an extension (rule 8).
RepeatedNames(self) ==
    {NameErr("RepeatedOperationName", n) :
        n \in Keys(self.transitions) \cap Keys(self.extensions)}

\* A set default operation that is no operation of the interface (rule 9).
UnknownDefaultOps(self) ==
    {NameErr("UnknownDefaultOp", self.default_operation[1]) :
        x \in {y \in {1} : /\ self.default_operation # None
                           /\ self.default_operation[1] \notin
                                 Keys(self.transitions) \cup Keys(self.extensions)}}

\* Required declarations that genesis does not reference (rule 10).
RequiredAbsent(self) ==
    {NameErr("RequiredGlobalAbsent", e[1]) :
        e \in {x \in Elems(self.global_state) :
                  x[2].required /\ x[1] \notin Keys(self.genesis.globals)}}
    \cup {NameErr("RequiredAssignmentAbsent", e[1]) :
        e \in {x \in Elems(self.assignments) :
                  x[2].required /\ x[1] \notin Keys(self.genesis.assignments)}}
    \cup {NameErr("RequiredValencyAbsent", e[1]) :
        e \in {x \in Elems(self.valencies) :
                  x[2].required /\ x[1] \notin Elems(self.genesis.valencies)}}

\* Every violation of rules 1-10 in an interface.
Violations(self) ==
    UnknownIn(self, "UnknownGlobal", "globals", "global_state")
        \cup MultipleIn(self, "MultipleGlobal", "globals", "global_state")
        \cup UnknownIn(self, "UnknownAssignment", "assignments", "assignments")
        \cup MultipleIn(self, "MultipleAssignment", "assignments", "assignments")
        \cup UnknownValencyIn(self, "UnknownValency", "valencies")
        \cup UnknownTags(self)
        \cup UnknownIn(self, "UnknownInput", "inputs", "assignments")
        \cup MultipleIn(self, "MultipleInputs", "inputs", "assignments")
        \cup UnknownDefaults(self)
        \cup UnknownValencyIn(self, "UnknownRedeem", "redeems")
        \cup RepeatedNames(self)
        \cup UnknownDefaultOps(self)
        \cup RequiredAbsent(self)

(***************************************************************************)
(* C1.  check never short-circuits: the violations it returns, as a set,   *)
(* are exactly the violations of rules 1-10 over genesis, every transition *)
(* and every extension, none missing and none spurious.                    *)
(***************************************************************************)
C1_Complete == Returned => Elems(ErrorsOf(result)) = Violations(iface)

\* check has returned both UnknownGlobal entries of an interface with two
\* unknown-global references in two different transitions.
C1_Witness ==
    /\ Returned
    /\ \E i, j \in 1..Len(ErrorsOf(result)) :
          LET e1 == ErrorsOf(result)[i]
              e2 == ErrorsOf(result)[j]
          IN /\ e1.kind = "UnknownGlobal" /\ e2.kind = "UnknownGlobal"
             /\ e1.op.op = "Transition" /\ e2.op.op = "Transition"
             /\ e1.op.name # e2.op.name

(***************************************************************************)
(* C2.  check returns Ok exactly when no violation was accumulated: an     *)
(* interface without any violation of rules 1-10 yields Ok, every other    *)
(* one yields Err, and an Err never carries an empty vector.               *)
(***************************************************************************)
C2_OkIffNoViolation ==
    Returned =>
        /\ result = Ok <=> Violations(iface) = {}
        /\ result # Ok => result[1] = "Err" /\ Len(result) = 2 /\ result[2] # <<>>

\* check has returned Ok for an interface with a required declaration that
\* genesis references and with a transition.
C2_Witness ==
    /\ result = Ok
    /\ \E e \in Elems(iface.global_state) :
          e[2].required /\ e[1] \in Keys(iface.genesis.globals)
    /\ iface.transitions # <<>>

(***************************************************************************)
(* C3.  After check has returned Ok, every name an operation references    *)
(* is declared in the table it refers to: globals in global_state,         *)
(* assignments and inputs in assignments, valencies and redeems in         *)
(* valencies, error tags among the tags of the declared variants, and a    *)
(* set default_assignment in the top-level assignments table.              *)
(***************************************************************************)
C3_OkMeansDeclared ==
    result = Ok =>
        \A o \in Operations(iface) :
            /\ Keys(o[2].globals) \subseteq Keys(iface.global_state)
            /\ Keys(o[2].assignments) \subseteq Keys(iface.assignments)
            /\ Elems(o[2].valencies) \subseteq Keys(iface.valencies)
            /\ Elems(o[2].errors) \subseteq {v.tag : v \in Keys(iface.errors)}
            /\ "inputs" \in DOMAIN o[2] =>
                  Keys(o[2].inputs) \subseteq Keys(iface.assignments)
            /\ "redeems" \in DOMAIN o[2] =>
                  Elems(o[2].redeems) \subseteq Keys(iface.valencies)
            /\ "default_assignment" \in DOMAIN o[2] =>
                  Elems(o[2].default_assignment) \subseteq Keys(iface.assignments)

\* check has returned Ok for an interface with a transition whose default
\* assignment is set.
C3_Witness ==
    /\ result = Ok
    /\ \E e \in Elems(iface.transitions) : e[2].default_assignment # None

(***************************************************************************)
(* C4.  For every operation and every referenced name that is declared,    *)
(* check reports MultipleGlobal (globals), MultipleAssignment (assignments) *)
(* or MultipleInputs (transition inputs) with that operation and name       *)
(* exactly when the reference's min_value() exceeds 1 and the declaration   *)
(* is not multiple; an interface check accepts has no such reference.       *)
(***************************************************************************)
\* The references of an operation through one of its ArgMap fields.
ArgRefs(self, field) ==
    UNION {{<<o[1], e[1], e[2]>> : e \in Elems(o[2][field])} :
             o \in OperationsWith(self, field)}

\* The cardinality rule for the references through field into table.
CardinalityRule(self, errors, kind, field, table) ==
    LET declared == Keys(self[table])
        reported == Elems(errors)
    IN \A r \in ArgRefs(self, field) :
          r[2] \in declared =>
              /\ OpErr(kind, r[1], r[2]) \in reported
                    <=> (min_value(r[3]) > 1 /\ ~Get(self[table], r[2]).multiple)
              /\ errors = <<>> =>
                    (Get(self[table], r[2]).multiple \/ min_value(r[3]) <= 1)

C4_Cardinality ==
    Returned =>
        /\ CardinalityRule(iface, ErrorsOf(result), "MultipleGlobal",
                           "globals", "global_state")
        /\ CardinalityRule(iface, ErrorsOf(result), "MultipleAssignment",
                           "assignments", "assignments")
        /\ CardinalityRule(iface, ErrorsOf(result), "MultipleInputs",
                           "inputs", "assignments")

\* check has reported a transition's input that asks for two of a declared,
\* non-multiple assignment.
C4_Witness ==
    /\ Returned
    /\ \E r \in ArgRefs(iface, "inputs") :
          /\ r[2] \in Keys(iface.assignments)
          /\ min_value(r[3]) = 2
          /\ OpErr("MultipleInputs", r[1], r[2]) \in Elems(ErrorsOf(result))

(***************************************************************************)
(* C5.  As claimed: when a global is declared required and non-multiple    *)
(* and genesis references it with OnceOrMore, check reports                *)
(* MultipleGlobal(Genesis, name).                                          *)
(***************************************************************************)
\* The globals declared required and non-multiple that genesis references
\* with an occurrence satisfying P.
SingularGenesisGlobals(self, P(_)) ==
    {e[1] : e \in {x \in Elems(self.genesis.globals) :
                      /\ x[1] \in Keys(self.global_state)
                      /\ Get(self.global_state, x[1]).required
                      /\ ~Get(self.global_state, x[1]).multiple
                      /\ P(x[2])}}

C5_OnceOrMoreRejected ==
    Returned =>
        \A n \in SingularGenesisGlobals(iface, LAMBDA occ : occ = OnceOrMore) :
            OpErr("MultipleGlobal", Genesis, n) \in Elems(ErrorsOf(result))

(***************************************************************************)
(* C5, amended.  When a global is declared required and non-multiple and   *)
(* genesis references it with an occurrence whose min_value() exceeds 1,   *)
(* such as Exactly(2), check reports MultipleGlobal(Genesis, name); for a  *)
(* reference with OnceOrMore, whose min_value() is 1, it reports no        *)
(* MultipleGlobal.                                                         *)
(***************************************************************************)
C5_MinimumAboveOneRejected ==
    Returned =>
        /\ \A n \in SingularGenesisGlobals(iface, LAMBDA occ : min_value(occ) > 1) :
              OpErr("MultipleGlobal", Genesis, n) \in Elems(ErrorsOf(result))
        /\ \A n \in SingularGenesisGlobals(iface, LAMBDA occ : occ = OnceOrMore) :
              OpErr("MultipleGlobal", Genesis, n) \notin Elems(ErrorsOf(result))

\* check has reported a genesis reference Exactly(2) to a required,
\* non-multiple global.
C5_Witness ==
    /\ Returned
    /\ \E n \in SingularGenesisGlobals(iface, LAMBDA occ : occ = Exactly(2)) :
          OpErr("MultipleGlobal", Genesis, n) \in Elems(ErrorsOf(result))

(***************************************************************************)
(* C6.  check reports RequiredGlobalAbsent, RequiredAssignmentAbsent or    *)
(* RequiredValencyAbsent for a declared name exactly when the declaration  *)
(* is required and the name is no key of the corresponding map or set of   *)
(* genesis: a genesis reference of minimum zero satisfies the requirement, *)
(* a reference from a transition or an extension does not.                 *)
(***************************************************************************)
\* The rule of required declarations for one table.
RequiredRule(decls, errors, kind, referenced) ==
    LET declared == Keys(decls)
        reported == Elems(errors)
    IN \A n \in Names :
          NameErr(kind, n) \in reported
              <=> /\ n \in declared
                  /\ Get(decls, n).required
                  /\ n \notin referenced

C6_Required ==
    Returned =>
        /\ RequiredRule(iface.global_state, ErrorsOf(result), "RequiredGlobalAbsent",
                        Keys(iface.genesis.globals))
        /\ RequiredRule(iface.assignments, ErrorsOf(result), "RequiredAssignmentAbsent",
                        Keys(iface.genesis.assignments))
        /\ RequiredRule(iface.valencies, ErrorsOf(result), "RequiredValencyAbsent",
                        Elems(iface.genesis.valencies))

\* check has accepted a required global that genesis references with
\* NoneOrMore.
C6_Witness ==
    /\ result = Ok
    /\ \E e \in Elems(iface.genesis.globals) :
          /\ e[2] = NoneOrMore
          /\ e[1] \in Keys(iface.global_state)
          /\ Get(iface.global_state, e[1]).required

\* check has reported a required assignment that a transition references
\* and genesis does not.
C6_WitnessTransition ==
    /\ Returned
    /\ \E e \in Elems(iface.transitions) :
          \E n \in Keys(e[2].assignments) :
              NameErr("RequiredAssignmentAbsent", n) \in Elems(ErrorsOf(result))

(***************************************************************************)
(* C7.  For every transition t and every name n of t.inputs that is no key *)
(* of the top-level assignments table, check fails and its vector holds    *)
(* UnknownInput(Transition(t), n) exactly once; the input reference yields *)
(* no MultipleInputs, and UnknownAssignment(Transition(t), n) only when n  *)
(* is a key of t.assignments as well; when that input is the interface's   *)
(* only violation, the vector is that one entry.                           *)
(***************************************************************************)
\* Number of occurrences of x in the sequence s.
Count(s, x) == Cardinality({i \in 1..Len(s) : s[i] = x})

\* The inputs of transitions that the assignments table does not declare, as
\* pairs of an OpName and a field name.
UnknownInputRefs(self) ==
    {<<r[1], r[2]>> : r \in {x \in ArgRefs(self, "inputs") :
                                x[2] \notin Keys(self.assignments)}}

C7_UnknownInput ==
    Returned =>
        \A r \in UnknownInputRefs(iface) :
            /\ result # Ok
            /\ Count(ErrorsOf(result), OpErr("UnknownInput", r[1], r[2])) = 1
            /\ OpErr("MultipleInputs", r[1], r[2]) \notin Elems(ErrorsOf(result))
            /\ OpErr("UnknownAssignment", r[1], r[2]) \in Elems(ErrorsOf(result))
                  <=> \E e \in Elems(iface.transitions) :
                         Transition(e[1]) = r[1] /\ r[2] \in Keys(e[2].assignments)
            /\ Violations(iface) = {OpErr("UnknownInput", r[1], r[2])}
                  => result = Err(<<OpErr("UnknownInput", r[1], r[2])>>)

\* check has returned the single entry UnknownInput for a transition with an
\* undeclared input in an interface with a declaration and no other defect.
C7_Witness ==
    /\ Returned
    /\ iface.global_state # <<>>
    /\ \E r \in UnknownInputRefs(iface) :
          result = Err(<<OpErr("UnknownInput", r[1], r[2])>>)

(***************************************************************************)
(* C8.  For every name that is a key of both the transitions table and the *)
(* extensions table, check fails and its vector holds                      *)
(* RepeatedOperationName(name) exactly once, whatever else is wrong; for a *)
(* name of one table only, it holds none.                                  *)
(***************************************************************************)
C8_RepeatedName ==
    Returned =>
        \A n \in Names :
            IF n \in Keys(iface.transitions) /\ n \in Keys(iface.extensions)
            THEN /\ result # Ok
                 /\ Count(ErrorsOf(result), NameErr("RepeatedOperationName", n)) = 1
            ELSE Count(ErrorsOf(result), NameErr("RepeatedOperationName", n)) = 0

\* check has reported a name of a transition and an extension, once, along
\* with another defect, in an interface with an operation of its own name.
C8_Witness ==
    /\ Returned
    /\ \E n \in Keys(iface.transitions) \cap Keys(iface.extensions) :
          /\ Count(ErrorsOf(result), NameErr("RepeatedOperationName", n)) = 1
          /\ Len(ErrorsOf(result)) > 1

(***************************************************************************)
(* C9.  check reports UnknownDefaultOp(name) exactly when                  *)
(* default_operation is Some(name) and name is a key of neither the        *)
(* transitions table nor the extensions table; with default_operation      *)
(* unset it reports none.                                                  *)
(***************************************************************************)
C9_DefaultOp ==
    Returned =>
        \A n \in Names :
            NameErr("UnknownDefaultOp", n) \in Elems(ErrorsOf(result))
                <=> /\ iface.default_operation = Some(n)
                    /\ n \notin Keys(iface.transitions)
                    /\ n \notin Keys(iface.extensions)

\* check has reported a default operation that names no operation, in an
\* interface that has an operation of another name.
C9_Witness ==
    /\ Returned
    /\ iface.default_operation # None
    /\ Keys(iface.transitions) \cup Keys(iface.extensions) # {}
    /\ NameErr("UnknownDefaultOp", iface.default_operation[1])
          \in Elems(ErrorsOf(result))

\* check has accepted a default operation that names an extension.
C9_WitnessExtension ==
    /\ result = Ok
    /\ iface.default_operation # None
    /\ iface.default_operation[1] \in Keys(iface.extensions)

(***************************************************************************)
(* C10.  The result of check depends only on the key/value content of the  *)
(* interface's tables: whatever the order in which the entries were        *)
(* inserted, check returns what it returns for the interface with the same *)
(* content laid out in key order, violations in the same order.            *)
(***************************************************************************)
\* The entries of s in the order of key(_), which tells them apart.
SortBy(s, key(_)) ==
    IF Len(s) <= 1
    THEN s
    ELSE LET before == <<>> \o [j \in 1..Len(s) |->
                          Cardinality({k \in 1..Len(s) : key(s[k]) < key(s[j])})]
         IN <<>> \o [i \in 1..Len(s) |->
                        s[CHOOSE j \in 1..Len(s) : before[j] = i - 1]]

\* The content of an operation, laid out in key order.
CanonicalOp(o) ==
    [f \in DOMAIN o |->
        CASE f \in {"globals", "assignments", "inputs"} ->
                SortBy(o[f], LAMBDA e : Rank(e[1]))
          [] f \in {"valencies", "redeems"} -> SortBy(o[f], Rank)
          [] f = "errors" -> SortBy(o[f], LAMBDA t : t)
          [] OTHER -> o[f]]

\* The content of a table of operations, laid out in key order.
CanonicalOps(table) ==
    SortBy([i \in 1..Len(table) |-> <<table[i][1], CanonicalOp(table[i][2])>>],
           LAMBDA e : Rank(e[1]))

\* The content of an interface, laid out in key order.
Canonical(self) ==
    [self EXCEPT
        !.global_state = SortBy(self.global_state, LAMBDA e : Rank(e[1])),
        !.assignments = SortBy(self.assignments, LAMBDA e : Rank(e[1])),
        !.valencies = SortBy(self.valencies, LAMBDA e : Rank(e[1])),
        !.genesis = CanonicalOp(self.genesis),
        !.transitions = CanonicalOps(self.transitions),
        !.extensions = CanonicalOps(self.extensions),
        !.errors = SortBy(self.errors, LAMBDA e : e[1].tag)]

C10_OrderInsensitive == Returned => result = check(Canonical(iface))

\* check has returned two violations for an interface whose genesis globals
\* and whose transitions are what inserting "b" before "a" and inserting "a"
\* before "b" both give.
C10_Witness ==
    /\ Returned
    /\ Len(ErrorsOf(result)) >= 2
    /\ \/ \E o1, o2 \in Occurrences :
             /\ iface.genesis.globals = MapInsert(MapInsert(<<>>, "b", o2), "a", o1)
             /\ iface.genesis.globals = MapInsert(MapInsert(<<>>, "a", o1), "b", o2)
       \/ \E t1, t2 \in {e[2] : e \in Elems(iface.transitions)} :
             /\ iface.transitions = MapInsert(MapInsert(<<>>, "b", t2), "a", t1)
             /\ iface.transitions = MapInsert(MapInsert(<<>>, "a", t1), "b", t2)

(***************************************************************************)
(* C16.  For every transition and extension whose default_assignment is    *)
(* Some(name), check reports UnknownDefaultAssignment(op, name) exactly    *)
(* when name is no key of that operation's own assignments map, whether or *)
(* not name is declared in the assignments table of the interface; for     *)
(* genesis it reports no UnknownDefaultAssignment.                         *)
(***************************************************************************)
C16_DefaultAssignment ==
    Returned =>
        LET reported == Elems(ErrorsOf(result))
        IN /\ \A o \in Operations(iface), n \in Names :
                 OpErr("UnknownDefaultAssignment", o[1], n) \in reported
                     <=> /\ "default_assignment" \in DOMAIN o[2]
                         /\ o[2].default_assignment = Some(n)
                         /\ n \notin Keys(o[2].assignments)
           /\ \A e \in reported :
                 e.kind = "UnknownDefaultAssignment" => e.op # Genesis

\* check has reported the default assignment of a transition that the
\* interface declares and the transition does not assign.
C16_Witness ==
    /\ Returned
    /\ \E o \in OperationsWith(iface, "default_assignment") :
          /\ o[2].default_assignment # None
          /\ o[2].default_assignment[1] \in Keys(iface.assignments)
          /\ OpErr("UnknownDefaultAssignment", o[1], o[2].default_assignment[1])
                \in Elems(ErrorsOf(result))

\* check has reported no default assignment for an extension whose default
\* is one of its assignments and is not declared in the interface.
C16_WitnessOwn ==
    /\ Returned
    /\ \E e \in Elems(iface.extensions) :
          /\ e[2].default_assignment # None
          /\ e[2].default_assignment[1] \in Keys(e[2].assignments)
          /\ e[2].default_assignment[1] \notin Keys(iface.assignments)
          /\ \A x \in Elems(ErrorsOf(result)) : x.kind # "UnknownDefaultAssignment"

(***************************************************************************)
(* C17.  For every operation, check reports UnknownValency(op, name)       *)
(* exactly for the names of its valencies set that are no key of the       *)
(* valencies table, and for every extension UnknownRedeem(op, name)        *)
(* exactly for the names of its redeems set that are no key of that table: *)
(* an undeclared name in both sets of an extension yields both entries, a  *)
(* declared name neither.                                                  *)
(***************************************************************************)
C17_ValencyRedeem ==
    Returned =>
        LET reported == Elems(ErrorsOf(result))
            declared == Keys(iface.valencies)
        IN \A o \in Operations(iface), n \in Names :
              /\ OpErr("UnknownValency", o[1], n) \in reported
                    <=> /\ n \in Elems(o[2].valencies)
                        /\ n \notin declared
              /\ OpErr("UnknownRedeem", o[1], n) \in reported
                    <=> /\ "redeems" \in DOMAIN o[2]
                        /\ n \in Elems(o[2].redeems)
                        /\ n \notin declared

\* check has reported both entries for an undeclared name in the valencies
\* and the redeems of one extension.
C17_Witness ==
    /\ Returned
    /\ \E e \in Elems(iface.extensions) :
          \E n \in Elems(e[2].valencies) \cap Elems(e[2].redeems) :
              /\ n \notin Keys(iface.valencies)
              /\ Count(ErrorsOf(result), OpErr("UnknownValency", Extension(e[1]), n)) = 1
              /\ Count(ErrorsOf(result), OpErr("UnknownRedeem", Extension(e[1]), n)) = 1

\* check has accepted an extension that redeems a declared valency.
C17_WitnessDeclared ==
    /\ result = Ok
    /\ \E e \in Elems(iface.extensions) :
          \E n \in Elems(e[2].redeems) : n \in Keys(iface.valencies)

(***************************************************************************)
(* C19.  The vector check returns is ordered: the violations of genesis    *)
(* come first, then those of each transition in key order, then those of   *)
(* each extension in key order, and after every violation of an operation  *)
(* come RepeatedOperationName, then UnknownDefaultOp, then                 *)
(* RequiredGlobalAbsent, RequiredAssignmentAbsent and                      *)
(* RequiredValencyAbsent.                                                  *)
(***************************************************************************)
\* The cross-operation violations, in the order of the claim.
CrossKinds ==
    <<"RepeatedOperationName", "UnknownDefaultOp", "RequiredGlobalAbsent",
      "RequiredAssignmentAbsent", "RequiredValencyAbsent">>

\* The place of a violation in the order of the claim.
Place(e) ==
    IF "op" \in DOMAIN e
    THEN CASE e.op.op = "Genesis" -> 0
           [] e.op.op = "Transition" -> Rank(e.op.name)
           [] e.op.op = "Extension" -> Len(FieldNames) + Rank(e.op.name)
    ELSE 2 * Len(FieldNames)
            + (CHOOSE k \in 1..Len(CrossKinds) : CrossKinds[k] = e.kind)

C19_Ordered ==
    Returned =>
        \A i, j \in 1..Len(ErrorsOf(result)) :
            i < j => Place(ErrorsOf(result)[i]) <= Place(ErrorsOf(result)[j])

\* check has returned violations of genesis, of a transition, of an extension
\* and of four cross-operation rules.
C19_Witness ==
    /\ Returned
    /\ Cardinality({Place(ErrorsOf(result)[i]) : i \in 1..Len(ErrorsOf(result))}) >= 7

\* check has returned the violations of two transitions.
C19_WitnessTransitions ==
    /\ Returned
    /\ \E i, j \in 1..Len(ErrorsOf(result)) :
          /\ i < j
          /\ "op" \in DOMAIN ErrorsOf(result)[i] /\ "op" \in DOMAIN ErrorsOf(result)[j]
          /\ ErrorsOf(result)[i].op = Transition("a")
          /\ ErrorsOf(result)[j].op = Transition("b")

(***************************************************************************)
(* C11.  iface_id is deterministic and independent of the order of         *)
(* construction: two interface values with the same content, field for     *)
(* field, whatever the order in which their entries were inserted, have    *)
(* the same identifier, byte for byte.                                     *)
(***************************************************************************)
\* The content of an operation: its collections as sets of entries.
ContentOp(o) ==
    [f \in DOMAIN o |->
        IF f \in {"globals", "assignments", "inputs", "valencies", "redeems", "errors"}
        THEN Elems(o[f])
        ELSE o[f]]

\* The content of a table of operations.
ContentOps(table) == {<<e[1], ContentOp(e[2])>> : e \in Elems(table)}

\* The content of an interface, field for field.
Content(self) ==
    [self EXCEPT
        !.inherits = Elems(@),
        !.global_state = Elems(@),
        !.assignments = Elems(@),
        !.valencies = Elems(@),
        !.genesis = ContentOp(@),
        !.transitions = ContentOps(@),
        !.extensions = ContentOps(@),
        !.errors = Elems(@),
        !.types = Elems(@)]

\* The calls of the given method that have returned.
ReturnedFrom(method) == result # <<>> /\ result[1] = method

C11_SameContentSameId ==
    ReturnedFrom("iface_id") =>
        (Content(iface) = Content(other) => result[2] = iface_id(other))

\* iface_id has returned for an interface with two entries in one collection,
\* the other interface being made of the same two insertions the other way
\* round.
C11_Witness ==
    /\ ReturnedFrom("iface_id")
    /\ \E e1, e2 \in Edits :
          /\ e1[1] = e2[1] /\ e1[2] # e2[2]
          /\ e1[1] \in {"global_state", "genesis.valencies"}
          /\ iface = Assemble(<<e1, e2>>)
          /\ other = Assemble(<<e2, e1>>)
    /\ result[2] = iface_id(other)

(***************************************************************************)
(* C12.  Two interface values that differ in a field the encoding commits  *)
(* to (a modifier, the bounds of an occurrence, a declared type, a name,   *)
(* ...) have different identifiers, SHA-256 being taken as collision-free: *)
(* iface_id is injective over interfaces that differ in meaning.           *)
(***************************************************************************)
\* An ArgMap with every occurrence as its bounds.
BoundsOf(m) == [i \in 1..Len(m) |-> <<m[i][1], min_value(m[i][2]), max_value(m[i][2])>>]

\* An operation with every occurrence as its bounds.
MeaningOp(o) ==
    [f \in DOMAIN o |->
        IF f \in {"globals", "assignments", "inputs"} THEN BoundsOf(o[f]) ELSE o[f]]

\* An interface with every occurrence as its bounds.
Meaning(self) ==
    [self EXCEPT
        !.genesis = MeaningOp(@),
        !.transitions = [i \in 1..Len(@) |-> <<@[i][1], MeaningOp(@[i][2])>>],
        !.extensions = [i \in 1..Len(@) |-> <<@[i][1], MeaningOp(@[i][2])>>]]

C12_Injective ==
    ReturnedFrom("iface_id") =>
        (Meaning(iface) # Meaning(other) => result[2] # iface_id(other))

\* iface_id has returned for an interface from which the other differs in the
\* modifier of genesis and in nothing else.
C12_Witness ==
    /\ ReturnedFrom("iface_id")
    /\ other = [iface EXCEPT !.genesis.modifier = Override]
    /\ iface.genesis.modifier = Final
    /\ iface.genesis.globals # <<>>
    /\ result[2] # iface_id(other)

\* iface_id has returned for an interface from which the other differs in the
\* declared type of a global state and in nothing else.
C12_WitnessType ==
    /\ ReturnedFrom("iface_id")
    /\ \E n \in Keys(iface.global_state) :
          /\ Get(iface.global_state, n).sem_id = None
          /\ other = [iface EXCEPT !.global_state = MapInsert(@, n, typed(1, "Optional"))]
    /\ result[2] # iface_id(other)

(***************************************************************************)
(* C13.  Equality and order of interfaces are those of their identifiers:  *)
(* a == b exactly when the identifiers are equal, cmp(a, b) is the order   *)
(* of the identifiers, partial_cmp(a, b) is Some(cmp(a, b)), and cmp       *)
(* returns Equal exactly when a == b and Less exactly when cmp(b, a)       *)
(* returns Greater.                                                        *)
(***************************************************************************)
C13_ByIdentifier ==
    /\ ReturnedFrom("eq") => result[2] = (iface_id(iface) = iface_id(other))
    /\ ReturnedFrom("cmp") =>
          /\ result[2] = cmp_bytes(iface_id(iface), iface_id(other))
          /\ result[2] = Equal <=> iface_id(iface) = iface_id(other)
          /\ result[2] = Less <=> cmp_bytes(iface_id(other), iface_id(iface)) = Greater
    /\ ReturnedFrom("partial_cmp") =>
          result[2] = Some(cmp_bytes(iface_id(iface), iface_id(other)))

\* cmp has told apart two interfaces of the same name.
C13_Witness ==
    /\ ReturnedFrom("cmp")
    /\ result[2] # Equal
    /\ iface.name = other.name
    /\ iface.global_state # other.global_state

\* eq has returned TRUE for two interfaces put together in different orders.
C13_WitnessEq ==
    /\ ReturnedFrom("eq")
    /\ result[2]
    /\ Len(iface.genesis.valencies) = 2

(***************************************************************************)
(* C18.  For every operation and every tag of its errors set, check        *)
(* reports UnknownErrorTag(op, tag) exactly when no key of the errors      *)
(* table of the interface has that tag, whatever the names and the         *)
(* descriptions of the declared variants.                                  *)
(***************************************************************************)
C18_ErrorTag ==
    Returned =>
        LET reported == Elems(ErrorsOf(result))
        IN \A o \in Operations(iface), t \in Tags :
              TagErr(o[1], t) \in reported
                  <=> /\ t \in Elems(o[2].errors)
                      /\ \A e \in Elems(iface.errors) : e[1].tag # t

\* check has accepted a transition's error tag that the interface declares
\* under a name and a description of its own.
C18_Witness ==
    /\ result = Ok
    /\ \E o \in Elems(iface.transitions), e \in Elems(iface.errors) :
          /\ e[1].tag \in Elems(o[2].errors)
          /\ e[1].name = "f0"
          /\ e[2] = "d"

\* check has reported the tag of an extension in an interface that declares
\* another tag.
C18_WitnessUnknown ==
    /\ Returned
    /\ iface.errors # <<>>
    /\ \E o \in Elems(iface.extensions), t \in Tags :
          TagErr(Extension(o[1]), t) \in Elems(ErrorsOf(result))

(***************************************************************************)
(* C20.  The result of check does not depend on inheritance or on type     *)
(* information: two interfaces that differ only in name, inherits,         *)
(* modifiers, optional flags, metadata, declared semantic types, kinds of  *)
(* owned state, visibility, descriptions of errors or types have the same  *)
(* result; an Override operation in an interface that inherits from none   *)
(* is accepted.                                                            *)
(***************************************************************************)
\* An operation without its modifier, its optional flag and its metadata.
CheckedOp(o) ==
    [f \in DOMAIN o \ {"modifier", "optional", "metadata"} |-> o[f]]

\* A table of declarations with the flags required and multiple only.
CheckedDecls(table) ==
    [i \in 1..Len(table) |->
        <<table[i][1],
          [f \in DOMAIN table[i][2] \cap {"required", "multiple"} |-> table[i][2][f]]>>]

\* What is left of an interface without the fields the claim lists.
Checked(self) ==
    [global_state |-> CheckedDecls(self.global_state),
     assignments |-> CheckedDecls(self.assignments),
     valencies |-> self.valencies,
     genesis |-> CheckedOp(self.genesis),
     transitions |->
        [i \in 1..Len(self.transitions) |->
            <<self.transitions[i][1], CheckedOp(self.transitions[i][2])>>],
     extensions |->
        [i \in 1..Len(self.extensions) |->
            <<self.extensions[i][1], CheckedOp(self.extensions[i][2])>>],
     default_operation |-> self.default_operation,
     errors |-> [i \in 1..Len(self.errors) |-> self.errors[i][1]]]

C20_IgnoresInheritanceAndTypes ==
    ReturnedFrom("check") =>
        /\ Checked(iface) = Checked(other) => result[2] = check(other)
        /\ (Checked(iface) = Checked(EmptyIface)) => result[2] = Ok

\* check has accepted an interface with an Override genesis that inherits
\* from none, the other interface differing in that modifier only.
C20_Witness ==
    /\ ReturnedFrom("check")
    /\ result[2] = Ok
    /\ iface.inherits = <<>>
    /\ iface.genesis.modifier = Final
    /\ other = [iface EXCEPT !.genesis.modifier = Override]

\* check has returned violations for an interface from which the other
\* differs in the declared type of a global state only.
C20_WitnessType ==
    /\ ReturnedFrom("check")
    /\ result[2] # Ok
    /\ iface.global_state # other.global_state
    /\ Checked(iface) = Checked(other)

(***************************************************************************)
(* C15.  check and iface_id are read-only: under every interleaving of     *)
(* concurrent calls of check and iface_id on one interface, each call      *)
(* returns what it returns when it runs alone, and the interface is what   *)
(* it was before the calls.                                                *)
(***************************************************************************)
C15_ReadOnly ==
    /\ iface = other
    /\ \A t \in DOMAIN calls :
          calls[t].pc = "done" =>
              /\ calls[t].method = "check" => calls[t].ret = check(other)
              /\ calls[t].method = "iface_id" => calls[t].ret = iface_id(other)

\* A call of check has returned violations while another call of check, on
\* the same interface, is between its loops with violations in its vector.
C15_Witness ==
    /\ calls # <<>>
    /\ \E t, u \in DOMAIN calls :
          /\ t # u
          /\ calls[t].method = "check" /\ calls[t].pc = "done"
          /\ calls[t].ret # Ok
          /\ calls[u].method = "check" /\ calls[u].pc = "repeated"
          /\ calls[u].errors # <<>>

\* A call of check and a call of iface_id on the same interface have both
\* returned.
C15_WitnessBoth ==
    /\ calls # <<>>
    /\ \E t, u \in DOMAIN calls :
          /\ calls[t].method = "check" /\ calls[t].pc = "done"
          /\ calls[u].method = "iface_id" /\ calls[u].pc = "done"

(***************************************************************************)
(* C21.  The vector check returns holds no two equal entries, and one      *)
(* reference, a name in one map of one operation, yields at most one       *)
(* entry: UnknownGlobal and MultipleGlobal, UnknownAssignment and          *)
(* MultipleAssignment, UnknownInput and MultipleInputs are never both      *)
(* reported for the same operation and name.                               *)
(***************************************************************************)
\* The unknown-reference kind and the cardinality kind of the ArgMap fields.
ReferenceKinds ==
    {<<"UnknownGlobal", "MultipleGlobal">>,
     <<"UnknownAssignment", "MultipleAssignment">>,
     <<"UnknownInput", "MultipleInputs">>}

\* Two entries for one reference: the unknown-reference kind and the
\* cardinality kind of one field, with the same operation and name.
SameReference(e1, e2) ==
    /\ <<e1.kind, e2.kind>> \in ReferenceKinds
    /\ e1.op = e2.op
    /\ e1.name = e2.name

C21_NoDuplicates ==
    Returned =>
        LET errors == ErrorsOf(result)
        IN \A i, j \in 1..Len(errors) :
              i # j => errors[i] # errors[j] /\ ~SameReference(errors[i], errors[j])

\* check has reported, as unknown only, an undeclared assignment that an
\* operation references with a minimum above one, next to a reference to a
\* declared, non-multiple global that it has reported as multiple.
C21_Witness ==
    /\ Returned
    /\ \E r \in ArgRefs(iface, "assignments") :
          /\ r[2] \notin Keys(iface.assignments)
          /\ min_value(r[3]) > 1
          /\ Count(ErrorsOf(result), OpErr("UnknownAssignment", r[1], r[2])) = 1
    /\ \E r \in ArgRefs(iface, "globals") :
          /\ r[2] \in Keys(iface.global_state)
          /\ Count(ErrorsOf(result), OpErr("MultipleGlobal", r[1], r[2])) = 1

\* check has reported the same name as an unknown global of genesis and of a
\* transition: two entries that differ in their operation only.
C21_WitnessOperations ==
    /\ Returned
    /\ \E n \in Names, t \in Keys(iface.transitions) :
          /\ Count(ErrorsOf(result), OpErr("UnknownGlobal", Genesis, n)) = 1
          /\ Count(ErrorsOf(result), OpErr("UnknownGlobal", Transition(t), n)) = 1

(***************************************************************************)
(* C22.  The text IfaceDisplay writes lists every inherited interface      *)
(* after the name of the interface: for every interface that inherits from *)
(* some interface and every lookup of names, the empty one included, each  *)
(* inherited identifier is there as its name when the lookup has it and as *)
(* the identifier itself otherwise.                                        *)
(***************************************************************************)
\* The text a call of fmt has written: none before the call.
TextOf(r) == IF r # <<>> /\ r[1] = "fmt" THEN r[2] ELSE <<>>

\* The pieces of the text after the name of the interface, which is the
\* sixth piece.
AfterName(text) == {text[i] : i \in 7..Len(text)}

\* The piece an inherited identifier is listed as.
ListedAs(id, externals) ==
    IF id \in DOMAIN externals
    THEN Shown("TypeName", externals[id])
    ELSE Shown("Baid58 {:.2}", id)

C22_ListsInherited ==
    result # <<>> =>
        \A id \in Elems(iface.inherits) :
            ListedAs(id, other.externals) \in AfterName(TextOf(result))

(***************************************************************************)
(* C23.  Ticker::from_str, TryFrom<String> and TryFrom<AsciiString> return *)
(* Ok, with the string as the Ticker, exactly for the strings of 1 to 8    *)
(* characters that are all upper-case Latin letters or digits, and an      *)
(* InvalidIdent error for every other string; strict_encode of a Ticker    *)
(* that one of them has returned does not panic.                           *)
(***************************************************************************)
\* The code points of the upper-case Latin letters and of the digits.
UpperCaseOrDigit == (65..90) \cup (48..57)

\* The strings the claim says are tickers.
IsTickerText(s) ==
    /\ Len(s) >= 1
    /\ Len(s) <= 8
    /\ \A i \in 1..Len(s) : s[i] \in UpperCaseOrDigit

C23_TickerAlphabet ==
    /\ result # <<>> =>
          IF IsTickerText(other)
          THEN result[2] = OkOf(other)
          ELSE result[2][1] = "Err" /\ result[2][2][1] = "InvalidIdent"
    /\ calls # <<>> => calls[1] = "Ok" /\ Len(calls[2]) = Len(other) + 1

\* A constructor has returned a Ticker of eight characters, a digit among
\* them, and strict_encode has written it.
C23_Witness ==
    /\ result # <<>>
    /\ result[2][1] = "Ok"
    /\ Len(other) = 8
    /\ \E i \in 1..Len(other) : other[i] \in 48..57
    /\ calls # <<>>

\* TryFrom<AsciiString> has refused a string of nine upper-case letters.
C23_WitnessLength ==
    /\ result # <<>>
    /\ result[1] = "try_from(AsciiString)"
    /\ result[2][1] = "Err"
    /\ Len(other) = 9
    /\ \A i \in 1..Len(other) : other[i] \in UpperCaseOrDigit

\* from_str has refused a string for a lower-case letter, and TryFrom<String>
\* a string for a character that is not ASCII.
C23_WitnessChar ==
    /\ result # <<>>
    /\ result[2][1] = "Err"
    /\ \/ result[1] = "from_str" /\ \E i \in 1..Len(other) : other[i] = 97
       \/ result[1] = "try_from(String)" /\ \E i \in 1..Len(other) : other[i] = 233

====
